---------------------------- MODULE Spec2Model ----------------------------
(***************************************************************************)
(* A model of the content discovery and fallback resolution engine of the  *)
(* college assistant backend: name resolution (services/search.py), text   *)
(* extraction and topic-routed scraping (services/dynamic_scraper.py,      *)
(* services/playwright_scraper.py) and the chat orchestration              *)
(* (routers/chat.py).                                                      *)
(*                                                                         *)
(* Python strings are TLA+ strings; Len, \o, SubSeq, Head and Tail are     *)
(* used on them as on any sequence of characters.                          *)
(***************************************************************************)
EXTENDS Integers, Sequences, FiniteSets, TLC

(***************************************************************************)
(* String helpers: the Python str / re operations the code relies on.      *)
(***************************************************************************)

\* s[i] of Python, 1-based.
CharAt(s, i) == SubSeq(s, i, i)

\* Python "a in b" for strings.
IsSubstr(a, b) ==
    \E i \in 1..(Len(b) - Len(a) + 1) : SubSeq(b, i, i + Len(a) - 1) = a

\* Python b.startswith(a).
StartsWith(b, a) == Len(a) <= Len(b) /\ SubSeq(b, 1, Len(a)) = a

\* re.search(r"<a>$", b) for a literal a.
EndsWith(b, a) == Len(a) <= Len(b) /\ SubSeq(b, Len(b) - Len(a) + 1, Len(b)) = a

UpperAlpha == "ABCDEFGHIJKLMNOPQRSTUVWXYZ"
LowerAlpha == "abcdefghijklmnopqrstuvwxyz"
Digits == "0123456789"

CharsOf(s) == { CharAt(s, i) : i \in 1..Len(s) }

UpperChars == CharsOf(UpperAlpha)
LowerChars == CharsOf(LowerAlpha)
DigitChars == CharsOf(Digits)

LowerOf == [c \in UpperChars |->
              CharAt(LowerAlpha, CHOOSE i \in 1..Len(UpperAlpha) : CharAt(UpperAlpha, i) = c)]

LowerChar(c) == IF c \in UpperChars THEN LowerOf[c] ELSE c

\* Python str.lower(): every character lowered, the halves of the string in turn.
RECURSIVE Lower(_)
Lower(s) ==
    IF s = "" THEN ""
    ELSE IF Len(s) = 1 THEN LowerChar(s)
    ELSE Lower(SubSeq(s, 1, Len(s) \div 2)) \o Lower(SubSeq(s, Len(s) \div 2 + 1, Len(s)))

IsSpace(c) == c = " "

RECURSIVE LStrip(_)
LStrip(s) == IF s # "" /\ IsSpace(Head(s)) THEN LStrip(Tail(s)) ELSE s

RECURSIVE RStrip(_)
RStrip(s) ==
    IF s # "" /\ IsSpace(CharAt(s, Len(s))) THEN RStrip(SubSeq(s, 1, Len(s) - 1)) ELSE s

\* Python str.strip().
Strip(s) == RStrip(LStrip(s))

\* The characters matched by \w.
WordChars == UpperChars \cup LowerChars \cup DigitChars \cup {"_"}

IsWordChar(c) == c \in WordChars

\* re.findall(r'\w+', s): the maximal runs of word characters, in order; a run
\* starts at a word character that follows none and ends before the next character
\* that is none.
FindWords(s) ==
    LET IsWordAt(i) == IsWordChar(CharAt(s, i))
        starts == { i \in 1..Len(s) : IsWordAt(i) /\ (i = 1 \/ ~IsWordAt(i - 1)) }
        ends == { j \in 1..Len(s) : IsWordAt(j) /\ (j = Len(s) \/ ~IsWordAt(j + 1)) }
        Nth(set, k) == CHOOSE i \in set : Cardinality({ j \in set : j < i }) = k - 1
    IN  [k \in 1..Cardinality(starts) |-> SubSeq(s, Nth(starts, k), Nth(ends, k))]

\* s.split(): the maximal runs of non-blank characters, in order.
RECURSIVE SplitWsFrom(_, _, _)
SplitWsFrom(s, cur, acc) ==
    IF s = ""
    THEN IF cur = "" THEN acc ELSE Append(acc, cur)
    ELSE IF ~IsSpace(Head(s))
         THEN SplitWsFrom(Tail(s), cur \o Head(s), acc)
         ELSE SplitWsFrom(Tail(s), "", IF cur = "" THEN acc ELSE Append(acc, cur))

SplitWs(s) == SplitWsFrom(s, "", <<>>)

SeqToSet(q) == { q[i] : i \in 1..Len(q) }

\* The first index at which a occurs in b, 0 when it does not: b.find(a) + 1.
Find(a, b) ==
    IF IsSubstr(a, b)
    THEN CHOOSE i \in 1..(Len(b) - Len(a) + 1) :
            /\ SubSeq(b, i, i + Len(a) - 1) = a
            /\ \A j \in 1..(i - 1) : SubSeq(b, j, j + Len(a) - 1) # a
    ELSE 0

\* b.replace(a, "") for a non-empty a.
RECURSIVE Remove(_, _)
Remove(b, a) ==
    LET i == Find(a, b)
    IN  IF i = 0 THEN b
        ELSE SubSeq(b, 1, i - 1) \o Remove(SubSeq(b, i + Len(a), Len(b)), a)

\* Python string comparison a < b on lowercase words (lexicographic by code point).
CharOrd(c) == CHOOSE i \in 1..Len(LowerAlpha) : CharAt(LowerAlpha, i) = c

RECURSIVE StrLess(_, _)
StrLess(a, b) ==
    IF b = "" THEN FALSE
    ELSE IF a = "" THEN TRUE
    ELSE IF Head(a) = Head(b) THEN StrLess(Tail(a), Tail(b))
    ELSE CharOrd(Head(a)) < CharOrd(Head(b))

\* A stable ascending sort of a sequence of <<key, item>> pairs by integer key
\* (list.sort / sorted are stable); the items are returned.
RECURSIVE InsertByKey(_, _)
InsertByKey(sorted, pair) ==
    IF sorted = <<>> THEN <<pair>>
    ELSE IF sorted[Len(sorted)][1] <= pair[1] THEN Append(sorted, pair)
    ELSE Append(InsertByKey(SubSeq(sorted, 1, Len(sorted) - 1), pair), sorted[Len(sorted)])

RECURSIVE SortPairs(_, _)
SortPairs(pairs, acc) ==
    IF pairs = <<>> THEN acc ELSE SortPairs(Tail(pairs), InsertByKey(acc, Head(pairs)))

SortByKey(pairs) == LET r == SortPairs(pairs, <<>>) IN [i \in 1..Len(r) |-> r[i][2]]

\* A variant of the slice q[:n] that keeps the whole list.
TakeAll(q, n) == q

\* Python q[:n] for n >= 0.
Take(q, n) == SubSeq(q, 1, IF n < Len(q) THEN n ELSE Len(q))

(***************************************************************************)
(* urllib.parse.urlparse, as far as the code reads its result: the scheme  *)
(* and the netloc, and the ValueError it raises on an unbalanced bracket.  *)
(***************************************************************************)
SchemeChars == UpperChars \cup LowerChars \cup DigitChars \cup {"+", "-", "."}

UrlHasScheme(url) ==
    LET i == Find(":", url)
    IN  i > 1 /\ \A j \in 1..(i - 1) : CharAt(url, j) \in SchemeChars

UrlScheme(url) == IF UrlHasScheme(url) THEN Lower(SubSeq(url, 1, Find(":", url) - 1)) ELSE ""

UrlAfterScheme(url) ==
    IF UrlHasScheme(url) THEN SubSeq(url, Find(":", url) + 1, Len(url)) ELSE url

\* The part of s before the first of "/", "?" and "#".
RECURSIVE UpToDelimiter(_)
UpToDelimiter(s) ==
    IF s = "" \/ Head(s) \in {"/", "?", "#"} THEN "" ELSE Head(s) \o UpToDelimiter(Tail(s))

UrlNetloc(url) ==
    LET rest == UrlAfterScheme(url)
    IN  IF StartsWith(rest, "//") THEN UpToDelimiter(SubSeq(rest, 3, Len(rest))) ELSE ""

\* urlparse raises ValueError("Invalid IPv6 URL").
UrlRaises(url) ==
    LET n == UrlNetloc(url)
    IN  (IsSubstr("[", n) /\ ~IsSubstr("]", n)) \/ (IsSubstr("]", n) /\ ~IsSubstr("[", n))

(***************************************************************************)
(* services/search.py: exclusion list and confidence scoring.              *)
(***************************************************************************)
EXCLUDED_DOMAINS ==
    << "collegedunia.com", "shiksha.com", "careers360.com", "getmyuni.com",
       "collegedekho.com", "justdial.com", "wikipedia.org", "youtube.com",
       "facebook.com", "twitter.com", "linkedin.com", "instagram.com",
       "quora.com", "reddit.com", "glassdoor.com", "naukri.com", "indeed.com",
       "studyabroad", "embibe.com", "byjus.com", "vedantu.com", "toppr.com",
       "leverage.edu", "admitkard.com", "collegesearch.in", "indiaeducation.net",
       "google.com", "bing.com", "duckduckgo.com" >>

\* A variant that compares without lowercasing the domain first.
is_excluded_domain_case_sensitive(domain) ==
    \E i \in 1..Len(EXCLUDED_DOMAINS) : IsSubstr(EXCLUDED_DOMAINS[i], domain)

is_excluded_domain(domain) ==
    LET domain_lower == Lower(domain)
    IN  \E i \in 1..Len(EXCLUDED_DOMAINS) : IsSubstr(EXCLUDED_DOMAINS[i], domain_lower)

\* PREFERRED_PATTERNS: each is an escaped literal suffix anchored with $.
PREFERRED_PATTERNS == << ".ac.in", ".edu.in", ".edu", ".org.in", ".res.in" >>

ConfidenceStopWords == {"of", "the", "and", "for", "institute", "university", "college"}

get_domain_confidence(url, college_name) ==
    LET domain == Lower(UrlNetloc(url))
        name_words == SplitWs(Lower(college_name))
        significant == { i \in 1..Len(name_words) :
                            Len(name_words[i]) > 3 /\ name_words[i] \notin ConfidenceStopWords }
        matches == Cardinality({ i \in significant : IsSubstr(name_words[i], domain) })
    IN  IF \E k \in 1..Len(PREFERRED_PATTERNS) : EndsWith(domain, PREFERRED_PATTERNS[k])
        THEN "high"
        ELSE IF matches >= 2 THEN "high"
        ELSE IF matches >= 1 THEN "medium"
        ELSE "low"


(***************************************************************************)
(* Reference catalogs.  The data files (data/colleges.json and             *)
(* data/all_institutions.json) are read once at import; the loaders are    *)
(* load_colleges_database and load_all_institutions.  A Python dict keeps  *)
(* insertion order, so a catalog is a sequence of entries with distinct    *)
(* keys.                                                                   *)
(***************************************************************************)
CollegesJson ==
    << [key |-> "tech univ", name |-> "Tech University",
        url |-> "https://techuniv.edu.in/home"],
       [key |-> "Delhi Tech Univ", name |-> "Delhi Technological University",
        url |-> "https://www.dtu.ac.in"],
       [key |-> " IIT Bombay", name |-> "Indian Institute of Technology Bombay",
        url |-> "https://www.iitb.ac.in"],
       [key |-> "", name |-> "Nameless", url |-> "https://nameless.example.org"] >>

AllInstitutionsJson ==
    << [college |-> "Acme Institute of Technology (Id: C-1001)", university |-> "Pune University",
        state |-> "Maharashtra", district |-> "Pune", college_type |-> "Affiliated College"],
       [college |-> "Acme College of Arts (Id: C-1002)", university |-> "Pune University",
        state |-> "Maharashtra", district |-> "Nashik", college_type |-> "Affiliated College"],
       [college |-> "Zenith Engineering College", university |-> "Anna University",
        state |-> "Tamil Nadu", district |-> "Salem", college_type |-> "Affiliated College"],
       [college |-> "IIT Bombay Research Park", university |-> "IIT Bombay",
        state |-> "Maharashtra", district |-> "Mumbai", college_type |-> "Constituent College"],
       [college |-> "", university |-> "", state |-> "", district |-> "", college_type |-> ""] >>

KeyIndex(dict, key) ==
    IF \E i \in 1..Len(dict) : dict[i].key = key
    THEN CHOOSE i \in 1..Len(dict) : dict[i].key = key
    ELSE 0

\* dict[key] = value: a new key is appended, an old key keeps its place.
DictPut(dict, entry) ==
    LET i == KeyIndex(dict, entry.key)
    IN  IF i = 0 THEN Append(dict, entry) ELSE [dict EXCEPT ![i] = entry]

RECURSIVE LoadColleges(_, _)
LoadColleges(colleges, colleges_dict) ==
    IF colleges = <<>> THEN colleges_dict
    ELSE LET college == Head(colleges)
             key == Strip(Lower(college.key))
         IN  LoadColleges(Tail(colleges),
                IF key # ""
                THEN DictPut(colleges_dict, [key |-> key, name |-> college.name, url |-> college.url])
                ELSE colleges_dict)

load_colleges_database == LoadColleges(CollegesJson, <<>>)

\* re.sub(r'\s*\(Id:.*?\)', '', s): every leftmost shortest "(Id: ... )" with the
\* blanks before it is removed.
RECURSIVE RemoveIdTag(_)
RemoveIdTag(s) ==
    LET i == Find("(Id:", s)
        after == SubSeq(s, i + 4, Len(s))
        j == Find(")", after)
    IN  IF i = 0 \/ j = 0 THEN s
        ELSE RStrip(SubSeq(s, 1, i - 1)) \o RemoveIdTag(SubSeq(after, j + 1, Len(after)))

RECURSIVE LoadInstitutions(_, _)
LoadInstitutions(data, institutions_dict) ==
    IF data = <<>> THEN institutions_dict
    ELSE LET item == Head(data)
             clean_name == Strip(RemoveIdTag(item.college))
         IN  LoadInstitutions(Tail(data),
                IF item.college # ""
                THEN DictPut(institutions_dict,
                        [key |-> Lower(clean_name), name |-> clean_name,
                         university |-> item.university, state |-> item.state,
                         district |-> item.district, type |-> item.college_type])
                ELSE institutions_dict)

load_all_institutions == LoadInstitutions(AllInstitutionsJson, <<>>)

KNOWN_COLLEGES == load_colleges_database
ALL_INSTITUTIONS == load_all_institutions


(***************************************************************************)
(* services/search.py: search_known_colleges.  A match is the dict the     *)
(* code builds; keys a dict lacks ("details", "score") are "" and 0.       *)
(***************************************************************************)
Match(name, url, confidence, source, details, score) ==
    [name |-> name, url |-> url, confidence |-> confidence, source |-> source,
     details |-> details, score |-> score]

Details(info) == info.district \o ", " \o info.state

\* query_words: the words of the name longer than 3 characters.
QueryWords(name_lower) == { w \in SeqToSet(FindWords(name_lower)) : Len(w) > 3 }

ConfidenceValues == {"high", "medium", "low"}

\* The rank of a confidence string in Python's string order.
StrRank(c) == Cardinality({ d \in ConfidenceValues : StrLess(d, c) })

\* sorted(matches, key=lambda x: x['confidence'], reverse=True)
SortByConfidenceReverse(matches) ==
    SortByKey([i \in 1..Len(matches) |-> << 0 - StrRank(matches[i].confidence), matches[i] >>])

\* Step 3, the loop over KNOWN_COLLEGES.items().
RECURSIVE FuzzyKnown(_, _, _)
FuzzyKnown(name_lower, i, matches) ==
    IF i > Len(KNOWN_COLLEGES) THEN matches
    ELSE LET key == KNOWN_COLLEGES[i].key
             info == KNOWN_COLLEGES[i]
             common == QueryWords(name_lower) \cap SeqToSet(FindWords(key))
         IN  FuzzyKnown(name_lower, i + 1,
                IF IsSubstr(name_lower, key) \/ IsSubstr(key, name_lower)
                THEN Append(matches, Match(info.name, info.url, "high", "database", "", 0))
                ELSE IF Cardinality(common) >= 2
                THEN Append(matches, Match(info.name, info.url, "medium", "database", "", 0))
                ELSE matches)

\* Step 4, the loop over the items of the registry dict; st = <<ugc_matches,
\* current_matches>>.
RECURSIVE ScanInstitutions(_, _, _, _)
ScanInstitutions(institutions, name_lower, i, st) ==
    IF i > Len(institutions) THEN st[1]
    ELSE LET key == institutions[i].key
             info == institutions[i]
             common == Cardinality(QueryWords(name_lower) \cap SeqToSet(FindWords(key)))
             score == IF StartsWith(key, name_lower) THEN 90
                      ELSE IF IsSubstr(name_lower, key) THEN 80
                      ELSE IF st[2] < 10 /\ common >= 2 THEN 60 + common
                      ELSE 0
         IN  ScanInstitutions(institutions, name_lower, i + 1,
                IF score > 0
                THEN << Append(st[1], Match(info.name, "", "medium", "ugc_database",
                                            Details(info), score)),
                        IF score >= 80 THEN st[2] + 1 ELSE st[2] >>
                ELSE st)

\* The loop over ALL_INSTITUTIONS.items().
FuzzyUgc(name_lower, i, st) == ScanInstitutions(ALL_INSTITUTIONS, name_lower, i, st)

\* ugc_matches.sort(key=lambda x: x['score'], reverse=True)
SortByScoreReverse(ugc_matches) ==
    SortByKey([i \in 1..Len(ugc_matches) |-> << 0 - ugc_matches[i].score, ugc_matches[i] >>])

\* A variant without the two exact lookups (steps 1 and 2).
search_known_colleges_fuzzy_only(college_name) ==
    LET name_lower == Strip(Lower(college_name))
        matches == FuzzyKnown(name_lower, 1, <<>>)
        ugc_matches == FuzzyUgc(name_lower, 1, << <<>>, 0 >>)
    IN  IF matches # <<>>
        THEN Take(SortByConfidenceReverse(matches), 5)
        ELSE Take(SortByScoreReverse(ugc_matches), 5)

\* A variant that scans the curated catalog before the exact lookup in the registry.
search_known_colleges_scan_first(college_name) ==
    LET name_lower == Strip(Lower(college_name))
        k == KeyIndex(KNOWN_COLLEGES, name_lower)
        u == KeyIndex(ALL_INSTITUTIONS, name_lower)
        matches == FuzzyKnown(name_lower, 1, <<>>)
        ugc_matches == FuzzyUgc(name_lower, 1, << <<>>, 0 >>)
    IN  IF k # 0
        THEN << Match(KNOWN_COLLEGES[k].name, KNOWN_COLLEGES[k].url, "high", "database", "", 0) >>
        ELSE IF matches # <<>>
        THEN Take(SortByConfidenceReverse(matches), 5)
        ELSE IF u # 0
        THEN << Match(ALL_INSTITUTIONS[u].name, "", "high", "ugc_database",
                      Details(ALL_INSTITUTIONS[u]), 0) >>
        ELSE Take(SortByScoreReverse(ugc_matches), 5)

search_known_colleges(college_name) ==
    LET name_lower == Strip(Lower(college_name))
        k == KeyIndex(KNOWN_COLLEGES, name_lower)
        u == KeyIndex(ALL_INSTITUTIONS, name_lower)
        matches == FuzzyKnown(name_lower, 1, <<>>)
        ugc_matches == FuzzyUgc(name_lower, 1, << <<>>, 0 >>)
    IN  IF k # 0
        THEN << Match(KNOWN_COLLEGES[k].name, KNOWN_COLLEGES[k].url, "high", "database", "", 0) >>
        ELSE IF u # 0
        THEN << Match(ALL_INSTITUTIONS[u].name, "", "high", "ugc_database",
                      Details(ALL_INSTITUTIONS[u]), 0) >>
        ELSE IF matches # <<>>
        THEN Take(SortByConfidenceReverse(matches), 5)
        ELSE Take(SortByScoreReverse(ugc_matches), 5)


(***************************************************************************)
(* services/search.py: the four search providers.  What a provider gets    *)
(* back from the network is a raw response: the sequence of (href, title)  *)
(* items its parser finds.  A call ends with a list of results, or raises  *)
(* inside its try block.                                                   *)
(***************************************************************************)
\* href.split('/url?q=')[1].split('&')[0]
GoogleUnwrap(href) ==
    LET rest == SubSeq(href, 8, Len(href))
        n == Find("/url?q=", rest)
        seg == IF n = 0 THEN rest ELSE SubSeq(rest, 1, n - 1)
        a == Find("&", seg)
    IN  IF a = 0 THEN seg ELSE SubSeq(seg, 1, a - 1)

\* What a search engine may list: official sites, one of them on a port of its own,
\* aggregators, relative links, a link urlparse rejects, a Google redirect link.
RawPool ==
    { [href |-> "https://www.iitb.ac.in/placements", title |-> "IIT Bombay"],
      [href |-> "https://cse.iitb.ac.in/", title |-> ""],
      [href |-> "https://www.iitb.ac.in:8443/login", title |-> "IIT Bombay Login"],
      [href |-> "https://www.shiksha.com/college/acme-placements", title |-> "Acme on Shiksha"],
      [href |-> "https://acme-technology.com/about", title |-> "Acme"],
      [href |-> "https://Go.StudyAbroad.net/x", title |-> "Study"],
      [href |-> "http://[broken", title |-> "Broken"],
      [href |-> "/search?q=acme", title |-> "More"],
      [href |-> "https://zenithcollege.org", title |-> "Zenith"],
      [href |-> "/url?q=https://www.dtu.ac.in/&sa=U", title |-> "DTU"] }

\* What a search engine may list for a site-restricted query.
AggregatorRawPool ==
    { [href |-> "https://www.shiksha.com/college/acme-placements", title |-> "Acme placements"],
      [href |-> "https://www.careers360.com/colleges/acme/fees", title |-> "Acme fees"],
      [href |-> "https://collegedunia.com/college/acme", title |-> "Acme"],
      [href |-> "https://acme-technology.com/placements", title |-> "Placements"],
      [href |-> "https.shiksha.com+fees://example.org/x", title |-> "Odd scheme"] }

\* What the loop bodies of the providers read from a link alone: what urlparse makes
\* of it, the scheme://netloc kept of it, and the tests of its domain (lines 285-288
\* and 428-434).
Link(href) ==
    LET netloc == UrlNetloc(href)
        domain == Remove(netloc, "www.")
    IN  [raises |-> UrlRaises(href),
         origin |-> UrlScheme(href) \o "://" \o netloc,
         excluded |-> is_excluded_domain(netloc),
         domain |-> domain,
         domain_excluded |-> is_excluded_domain(domain),
         focus |-> IsSubstr(".edu", domain) \/ IsSubstr(".ac.in", domain)
                     \/ IsSubstr("college", domain)]

\* The links of the search results: those listed and those the Google redirects wrap.
ListedUrls ==
    { r.href : r \in RawPool \cup AggregatorRawPool } \cup { GoogleUnwrap(r.href) : r \in RawPool }

\* Link is a pure function: it is computed once for every link of the search results.
RECURSIVE LinkTable(_)
LinkTable(urls) ==
    IF urls = {} THEN <<>>
    ELSE LET u == CHOOSE x \in urls : TRUE
         IN  (u :> Link(u)) @@ LinkTable(urls \ { u })

Links == LinkTable(ListedUrls)

\* The loop body shared by search_with_searxng, search_with_startpage and
\* search_with_duckduckgo_lite: out = [raised, results].
RECURSIVE FilterItems(_, _, _)
FilterItems(items, results, max_results) ==
    IF items = <<>> THEN [raised |-> FALSE, results |-> results]
    ELSE LET Body(item, usable, parsed) ==
                 LET Rest(kept) ==
                         IF Len(kept) >= max_results
                         THEN [raised |-> FALSE, results |-> kept]
                         ELSE FilterItems(Tail(items), kept, max_results)
                 IN  IF usable /\ parsed.raises
                     THEN [raised |-> TRUE, results |-> <<>>]
                     ELSE IF usable /\ ~parsed.excluded
                     THEN Rest(Append(results, [href |-> parsed.origin, title |-> item.title]))
                     ELSE Rest(results)
         IN  Body(Head(items),
                  Head(items).href # "" /\ StartsWith(Head(items).href, "http"),
                  Links[Head(items).href])

\* One SearXNG instance after another is asked until one yields results; an
\* instance that raises or yields nothing is skipped.  raw is the response of
\* the instance that decides the call (any response, when all of them fail).
search_with_searxng(raw, max_results) ==
    LET out == FilterItems(raw, <<>>, max_results)
    IN  IF out.raised THEN <<>> ELSE out.results

search_with_startpage(raw, max_results) ==
    LET out == FilterItems(raw, <<>>, max_results)
    IN  IF out.raised THEN <<>> ELSE out.results

search_with_duckduckgo_lite(raw, max_results) ==
    LET out == FilterItems(raw, <<>>, max_results)
    IN  IF out.raised THEN <<>> ELSE out.results

\* The anchor loop of search_with_playwright_google; st = <<results, seen_domains>>.
\* A raise inside the loop ends it with the results found so far.
RECURSIVE GoogleAnchors(_, _, _)
GoogleAnchors(anchors, st, max_results) ==
    IF anchors = <<>> THEN st[1]
    ELSE LET Unwrapped(href) == IF StartsWith(href, "/url?q=") THEN GoogleUnwrap(href) ELSE href
             Body(a, href, parsed) ==
                 LET Found(result) ==
                         IF Len(st[1]) + 1 >= max_results
                         THEN Append(st[1], result)
                         ELSE GoogleAnchors(Tail(anchors),
                                            << Append(st[1], result),
                                               st[2] \cup {parsed.domain} >>,
                                            max_results)
                 IN  IF ~StartsWith(href, "http")
                     THEN GoogleAnchors(Tail(anchors), st, max_results)
                     ELSE IF parsed.raises THEN st[1]
                     ELSE IF parsed.domain_excluded \/ parsed.domain \in st[2] \/ ~parsed.focus
                     THEN GoogleAnchors(Tail(anchors), st, max_results)
                     ELSE Found([href |-> parsed.origin,
                                 title |-> IF a.title # "" THEN a.title ELSE parsed.domain])
         IN  Body(Head(anchors), Unwrapped(Head(anchors).href),
                  Links[Unwrapped(Head(anchors).href)])

search_with_playwright_google(raw, max_results) ==
    GoogleAnchors(raw, << <<>>, {} >>, max_results)


(***************************************************************************)
(* services/search.py: search_college_website (the resolve operation).     *)
(***************************************************************************)
\* ".".join(domain.split(".")[-2:]) if "." in domain else domain
RECURSIVE LastDot(_)
LastDot(s) ==
    IF s = "" THEN 0 ELSE IF CharAt(s, Len(s)) = "." THEN Len(s)
    ELSE LastDot(SubSeq(s, 1, Len(s) - 1))

BaseDomain(domain) ==
    LET d1 == LastDot(domain)
        d2 == IF d1 = 0 THEN 0 ELSE LastDot(SubSeq(domain, 1, d1 - 1))
    IN  SubSeq(domain, d2 + 1, Len(domain))

Candidate(name, url, confidence) ==
    Match(name, url, confidence, "web_search", "", 0)

\* The loop "Process and deduplicate results"; st = <<candidates, seen_domains>>.
RECURSIVE Deduplicate(_, _, _, _)
Deduplicate(rs, st, name, max) ==
    IF rs = <<>> THEN st[1]
    ELSE LET url == Head(rs).href
             title == Head(rs).title
             domain == Lower(UrlNetloc(url))
             base_domain == BaseDomain(domain)
             confidence == get_domain_confidence(url, name)
             shown == IF title # "" THEN title ELSE name \o " - " \o domain
             added == Append(st[1], Candidate(shown, url, confidence))
         IN  IF url = "" \/ UrlRaises(url) \/ domain = "" \/ base_domain \in st[2]
             THEN Deduplicate(Tail(rs), st, name, max)
             ELSE IF Len(added) >= max THEN added
             ELSE Deduplicate(Tail(rs), << added, st[2] \cup {base_domain} >>, name, max)

confidence_order(c) ==
    CASE c = "high" -> 0 [] c = "medium" -> 1 [] c = "low" -> 2 [] OTHER -> 3


\* candidates.sort(key=lambda x: confidence_order.get(x["confidence"], 3))
SortCandidates(cands) ==
    SortByKey([i \in 1..Len(cands) |-> << confidence_order(cands[i].confidence), cands[i] >>])

\* Lines 542-582: from the provider's results to the returned list.
ProcessResults(rs, name, max) ==
    Take(SortCandidates(Deduplicate(rs, << <<>>, {} >>, name, max)), max)

WithUrl(known) == SelectSeq(known, LAMBDA r : r.url # "")


(***************************************************************************)
(* The state of one resolve call and of its environment.                   *)
(***************************************************************************)
VARIABLES
    pc,               \* where the call stands
    input_name,       \* the college_name argument
    college_name,     \* the local college_name, refined from a registry match
    force_web_search, \* the force_web_search argument
    max_results,      \* the max_results argument
    known_results,    \* what search_known_colleges returned
    known_consulted,  \* whether search_known_colleges was called
    query,            \* the web search query
    results,          \* the provider results in hand
    calls,            \* the provider calls made so far: [provider, query, max_results]
    saw_excluded,     \* whether the response behind results listed an excluded domain
    candidates        \* the returned list

resolve_vars == << pc, input_name, college_name, force_web_search, max_results,
                   known_results, known_consulted, query, results, calls,
                   saw_excluded, candidates >>

\* The state of one call of extract_text_content in each scraper module.
VARIABLES
    extract_pc,       \* "call" before the extraction, "done" after it
    html,             \* the document handed to extract_text_content
    text,             \* what dynamic_scraper.extract_text_content returned
    playwright_text   \* what playwright_scraper.extract_text_content returned

extract_vars == << extract_pc, html, text, playwright_text >>

\* The state of one call of has_specific_data.
VARIABLES
    adequate_pc,      \* "call" before the evaluation, "done" after it
    content,          \* the content argument, a sequence of characters
    content_intent,   \* the intent argument
    has_data          \* the returned value

adequate_vars == << adequate_pc, content, content_intent, has_data >>

\* The state of one call of scrape_from_aggregators.
VARIABLES
    agg_pc,           \* where the call stands
    agg_college_name, \* the college_name argument
    agg_intent,       \* the intent argument
    query_index,      \* the position in search_queries
    found_url,        \* found_url, "" for None
    agg_calls,        \* the provider calls made so far: [provider, query, max_results]
    agg_listed,       \* the first aggregator URL with the topic keyword a provider's
                      \* raw response has listed, "" when none has
    agg_rendered,     \* the URL handed to page.goto, "" when none was
    agg_text,         \* the text extracted from the rendered page
    agg_data,         \* the returned value: <<>> for None, << record >> otherwise
    agg_yielded,      \* whether a provider has returned a result on an aggregator domain
    agg_results       \* the local results: the answer of the last provider call

agg_vars == << agg_pc, agg_college_name, agg_intent, query_index, found_url, agg_calls,
               agg_listed, agg_rendered, agg_text, agg_data, agg_yielded, agg_results >>

\* The state of one chat request.
VARIABLES
    chat_pc,            \* where the handler stands
    question_length,    \* len(request.question.strip())
    college,            \* the College row: <<>> when there is none, << row >> otherwise
    chat_intent,        \* intent, from the classifier
    needs_scrape,       \* needs_scrape, from the classifier and the forcing of line 80
    pages_data,         \* pages_data
    has_good_data,      \* has_good_data
    new_page_data,      \* what scrape_for_intent returned: <<>> for None
    official_scraped,   \* whether scrape_for_intent was called
    aggregator_invoked, \* whether scrape_from_aggregators was called
    chat_response       \* the response: its status and its source_page

chat_vars == << chat_pc, question_length, college, chat_intent, needs_scrape, pages_data,
                has_good_data, new_page_data, official_scraped, aggregator_invoked,
                chat_response >>

\* The state of one call of scrape_for_intent, and of the call of scrape_with_discovery
\* it is waiting for.
VARIABLES
    fetch_pc,         \* where scrape_for_intent stands
    base_url,         \* the base_url argument
    fetch_intent,     \* the intent argument
    discovered_urls,  \* the portals of the homepage scan still to try
    path_index,       \* the position in the intent's standard paths
    sd_pc,            \* where scrape_with_discovery stands: "idle" when it is not running
    sd_url,           \* its url argument
    sd_content,       \* its content
    sd_portals,       \* its discovered_urls still to try
    content_url,      \* the URL of the page whose render gave the content it returned
    fallback_text,    \* <<>>, or the text of the base URL's own page in the last stage
    page_data,        \* the returned value: <<>> for None, << record >> otherwise
    scan_status,      \* the status of the page of the homepage scan: 0 before, -1 when it failed
    scan_portals,     \* the matching portals the homepage scan found
    attempts,         \* the URLs scrape_with_discovery was called with, in order
    last_length,      \* the length of the text the last call returned, -1 for None
    failures,         \* the stages in which a render failed
    step              \* the record of the running or last call of scrape_with_discovery

fetch_vars == << fetch_pc, base_url, fetch_intent, discovered_urls, path_index, sd_pc, sd_url,
                 sd_content, sd_portals, content_url, fallback_text, page_data, scan_status,
                 scan_portals, attempts, last_length, failures, step >>

\* The state of one call of quick_scrape_homepage.
VARIABLES
    quick_pc,         \* where the call stands
    quick_base_url,   \* the base_url argument
    quick_status,     \* the status of the page it rendered: 0 before, -1 when the render failed
    quick_data        \* the returned value: <<>> for None, << record >> otherwise

quick_vars == << quick_pc, quick_base_url, quick_status, quick_data >>

\* The state the calls of one thread share: the event loop asyncio holds as the thread's
\* current one, "none" outside a running loop and "main" in the server's handlers.
VARIABLES event_loop

\* A registry fuzzy scan (search_known_colleges, step 4) over a registry the import
\* loaded: the registry dict, the lowercased name and the list the scan returns.
VARIABLES
    scan_pc,
    institutions,
    scan_name,
    ugc_top

scan_vars == << scan_pc, institutions, scan_name, ugc_top >>

\* A call of discover_portal_urls: the page, the originating URL, the intent and the
\* list returned.
VARIABLES
    discovery_pc,
    discovery_page,
    discovery_base,
    discovery_intent,
    portal_urls

discovery_vars == << discovery_pc, discovery_page, discovery_base, discovery_intent,
                     portal_urls >>

\* The confirm and chat requests in flight on the database (routers/college.py and
\* routers/chat.py): the committed rows of the tables, the next value of the id
\* sequence, and for every request what it asks, where it stands, the College row its
\* session holds, the homepage snapshot and the response.
VARIABLES
    colleges,
    college_pages,
    next_id,
    request,
    request_pc,
    session_college,
    homepage_data,
    http_response

request_vars == << colleges, college_pages, next_id, request, request_pc, session_college,
                   homepage_data, http_response >>

vars == << resolve_vars, extract_vars, adequate_vars, agg_vars, chat_vars, fetch_vars,
           quick_vars, event_loop, scan_vars, discovery_vars, request_vars >>

\* The variables of the operations that are not running.
ResolveIdle == pc = "idle" /\ input_name = "" /\ college_name = "" /\ force_web_search = FALSE
               /\ max_results = 0 /\ known_results = <<>> /\ known_consulted = FALSE
               /\ query = "" /\ results = <<>> /\ calls = <<>> /\ saw_excluded = FALSE
               /\ candidates = <<>>

ExtractIdle == extract_pc = "idle" /\ html = <<>> /\ text = <<>> /\ playwright_text = <<>>

AdequateIdle == adequate_pc = "idle" /\ content = <<>> /\ content_intent = "" /\ has_data = FALSE

AggIdle == agg_pc = "idle" /\ agg_college_name = "" /\ agg_intent = "" /\ query_index = 0
           /\ found_url = "" /\ agg_calls = <<>> /\ agg_listed = "" /\ agg_rendered = ""
           /\ agg_text = <<>> /\ agg_data = <<>> /\ agg_yielded = FALSE
           /\ agg_results = <<>>

ChatIdle == chat_pc = "idle" /\ question_length = 0 /\ college = <<>> /\ chat_intent = ""
            /\ needs_scrape = FALSE /\ pages_data = <<>> /\ has_good_data = FALSE
            /\ new_page_data = <<>> /\ official_scraped = FALSE
            /\ aggregator_invoked = FALSE /\ chat_response = <<>>

FetchIdle == fetch_pc = "idle" /\ base_url = "" /\ fetch_intent = "" /\ discovered_urls = <<>>
             /\ path_index = 0 /\ sd_pc = "idle" /\ sd_url = "" /\ sd_content = <<>>
             /\ sd_portals = <<>> /\ content_url = "" /\ fallback_text = <<>>
             /\ page_data = <<>> /\ scan_status = 0 /\ scan_portals = <<>> /\ attempts = <<>>
             /\ last_length = 0 /\ failures = {} /\ step = <<>>

QuickIdle == quick_pc = "idle" /\ quick_base_url = "" /\ quick_status = 0 /\ quick_data = <<>>
ScanIdle == scan_pc = "idle" /\ institutions = <<>> /\ scan_name = "" /\ ugc_top = <<>>
DiscoveryIdle == discovery_pc = "idle" /\ discovery_page = <<>> /\ discovery_base = ""
                 /\ discovery_intent = "" /\ portal_urls = <<>>
RequestsIdle == colleges = <<>> /\ college_pages = <<>> /\ next_id = 1 /\ request = <<>>
                /\ request_pc = <<>> /\ session_college = <<>> /\ homepage_data = <<>>
                /\ http_response = <<>>

\* The coroutines of the services run on the server's event loop.
ServerLoop == event_loop = "main"

resolve_others == << extract_vars, adequate_vars, agg_vars, chat_vars, fetch_vars, quick_vars,
                     scan_vars, discovery_vars, request_vars >>
extract_others == << resolve_vars, adequate_vars, agg_vars, chat_vars, fetch_vars, quick_vars,
                     event_loop, scan_vars, discovery_vars, request_vars >>
adequate_others == << resolve_vars, extract_vars, agg_vars, chat_vars, fetch_vars, quick_vars,
                      event_loop, scan_vars, discovery_vars, request_vars >>
agg_others == << resolve_vars, extract_vars, adequate_vars, chat_vars, fetch_vars, quick_vars,
                 event_loop, scan_vars, discovery_vars, request_vars >>
chat_others == << resolve_vars, extract_vars, adequate_vars, agg_vars, fetch_vars, quick_vars,
                  event_loop, scan_vars, discovery_vars, request_vars >>
fetch_others == << resolve_vars, extract_vars, adequate_vars, agg_vars, chat_vars, quick_vars,
                   event_loop, scan_vars, discovery_vars, request_vars >>
quick_others == << resolve_vars, extract_vars, adequate_vars, agg_vars, chat_vars, fetch_vars,
                   event_loop, scan_vars, discovery_vars, request_vars >>
scan_others == << resolve_vars, extract_vars, adequate_vars, agg_vars, chat_vars, fetch_vars,
                  quick_vars, event_loop, discovery_vars, request_vars >>
discovery_others == << resolve_vars, extract_vars, adequate_vars, agg_vars, chat_vars,
                       fetch_vars, quick_vars, event_loop, scan_vars, request_vars >>
request_others == << resolve_vars, extract_vars, adequate_vars, agg_vars, chat_vars,
                     fetch_vars, quick_vars, event_loop, scan_vars, discovery_vars >>

\* Bounds of the model.
MaxRaw == 2

DEFAULT_MAX_RESULTS == 5

NameInputs ==
    { "  IIT Bombay ", "tech univ", "Tech Univ Delhi", "bombay",
      "Acme Institute of Technology", "acme", "Zenith College", "Unknown Polytechnic",
      "IIT Bombay Research Park" }

MaxResultsInputs == {1, 2, DEFAULT_MAX_RESULTS}

\* The providers' answers to every raw response, computed once.
ProviderMaxes == { m : m \in MaxResultsInputs } \cup { 2 * m : m \in MaxResultsInputs }

\* The elements of a set in a fixed order.
RECURSIVE SetToSeq(_)
SetToSeq(S) ==
    IF S = {} THEN <<>>
    ELSE LET x == CHOOSE y \in S : TRUE IN << x >> \o SetToSeq(S \ { x })

RECURSIVE Pow(_, _)
Pow(b, n) == IF n = 0 THEN 1 ELSE b * Pow(b, n - 1)

\* The number of sequences shorter than n over a pool of p items.
RECURSIVE Shorter(_, _)
Shorter(p, n) == IF n = 0 THEN 0 ELSE Shorter(p, n - 1) + Pow(p, n - 1)

\* The number of sequences of at most max items of a pool.
ResponseCount(pool, max) == Shorter(Cardinality(pool), max + 1)

\* The sequences of at most max items of a pool in a fixed order, the shorter first: a
\* response is known by its position k.
Responses(pool, max) ==
    LET items == SetToSeq(pool)
        p == Len(items)
    IN  [k \in 1..ResponseCount(pool, max) |->
            LET n == CHOOSE n \in 0..max : Shorter(p, n) < k /\ k <= Shorter(p, n + 1)
                j == k - Shorter(p, n) - 1
            IN  [i \in 1..n |-> items[((j \div Pow(p, i - 1)) % p) + 1]]]

RawList == Responses(RawPool, MaxRaw)
RawCount == ResponseCount(RawPool, MaxRaw)

SearxngAnswer ==
    [m \in ProviderMaxes |-> [k \in 1..RawCount |-> search_with_searxng(RawList[k], m)]]
StartpageAnswer ==
    [m \in ProviderMaxes |-> [k \in 1..RawCount |-> search_with_startpage(RawList[k], m)]]
DuckDuckGoLiteAnswer ==
    [m \in ProviderMaxes |-> [k \in 1..RawCount |-> search_with_duckduckgo_lite(RawList[k], m)]]
PlaywrightGoogleAnswer ==
    [m \in ProviderMaxes |-> [k \in 1..RawCount |-> search_with_playwright_google(RawList[k], m)]]

\* A domain is on the exclusion list when an entry occurs in it, case ignored.
OnExclusionList(domain) ==
    LET Listed(domain_lower) ==
            \E e \in SeqToSet(EXCLUDED_DOMAINS) : IsSubstr(e, domain_lower)
    IN  Listed(Lower(domain))

\* The items of the pool whose domain is on the exclusion list.
ExcludedRaw ==
    { r \in RawPool : StartsWith(r.href, "http") /\ OnExclusionList(UrlNetloc(r.href)) }

ListsExcluded ==
    [k \in 1..RawCount |-> \E i \in 1..Len(RawList[k]) : RawList[k][i] \in ExcludedRaw]

Call(provider, q, max) == [provider |-> provider, query |-> q, max_results |-> max]

ResolveInit ==
    /\ pc = "start"
    /\ input_name \in NameInputs
    /\ college_name = input_name
    /\ force_web_search \in BOOLEAN
    /\ max_results \in MaxResultsInputs
    /\ known_results = <<>>
    /\ known_consulted = FALSE
    /\ query = ""
    /\ results = <<>>
    /\ calls = <<>>
    /\ saw_excluded = FALSE
    /\ candidates = <<>>

\* A variant that looks the name up even when a web search is forced.
ConsultKnownAlways(force) == TRUE

\* Step 1 is guarded by "if not force_web_search".
ConsultKnown(force) == ~force

\* A variant that searches the web for the raw input name.
RefinedNameUnrefined(name, known) == name

\* Lines 503-508: the name used for the web search.
RefinedName(name, known) ==
    IF known # <<>> /\ known[1].source = "ugc_database"
    THEN known[1].name \o " " \o known[1].details
    ELSE name

\* Lines 489-515: the lookup in the catalogs, and either the return of the
\* matches that carry a URL or the build of the web search query.
CheckKnownColleges ==
    /\ pc = "start"
    /\ LET Named(name) ==
               /\ college_name' = name
               /\ query' = name \o " official website"
           Found(known) ==
               /\ known_consulted' = ConsultKnown(force_web_search)
               /\ known_results' = known
               /\ IF \E i \in 1..Len(known) : known[i].url # ""
                  THEN /\ candidates' = Take(WithUrl(known), max_results)
                       /\ pc' = "done"
                       /\ UNCHANGED << college_name, query >>
                  ELSE /\ Named(RefinedName(college_name, known))
                       /\ pc' = "searxng"
                       /\ UNCHANGED candidates
       IN  Found(IF ConsultKnown(force_web_search)
                 THEN search_known_colleges(college_name) ELSE <<>>)
    /\ UNCHANGED << input_name, force_web_search, max_results, results, calls, saw_excluded,
                    event_loop >>
    /\ UNCHANGED resolve_others

\* The event loops a call of search_college_website may find as the thread's current one.
EventLoops == { "none", "main" }

\* A variant of lines 463-473 that leaves the new loop as the thread's current one.
LoopNotRestored(loop) == IF loop = "main" THEN "new" ELSE loop

\* Lines 453-475: the thread's current loop after the search was run. Under a running
\* loop a new one is made current and the old one is restored in the finally clause;
\* otherwise asyncio.run leaves the thread without a current loop, as it found it.
LoopAfterSearch(loop) == loop

\* Lines 451-476: the search is run to its end by asyncio.run; under a running loop
\* run_until_complete raises RuntimeError, which line 474 turns into [].
RunSearch(loop, rs) == IF loop = "main" THEN <<>> ELSE rs

\* A variant that goes on to the next provider whatever the answer.
AlwaysNextProvider(rs, next) == next

\* Lines 521-540: the next provider is tried when the answer is empty; the first answer
\* that is not empty is processed.
AfterProvider(rs, next) == IF rs # <<>> THEN "process" ELSE next

\* One provider call: the next provider is tried when it yields nothing.
ProviderStep(here, provider, k, rs, max, next) ==
    /\ pc = here
    /\ event_loop' = IF provider = "playwright_google" THEN LoopAfterSearch(event_loop)
                     ELSE event_loop
    /\ saw_excluded' = (rs # <<>> /\ ListsExcluded[k])
    /\ results' = rs
    /\ calls' = Append(calls, Call(provider, query, max))
    /\ pc' = AfterProvider(rs, next)
    /\ UNCHANGED << input_name, college_name, force_web_search, max_results,
                    known_results, known_consulted, query, candidates >>
    /\ UNCHANGED resolve_others

\* Step 2: SearXNG.
TrySearxng ==
    /\ pc = "searxng"
    /\ \E k \in 1..RawCount :
        ProviderStep("searxng", "searxng", k, SearxngAnswer[max_results * 2][k],
                     max_results * 2, "startpage")

\* Step 3: Startpage.
TryStartpage ==
    /\ pc = "startpage"
    /\ \E k \in 1..RawCount :
        ProviderStep("startpage", "startpage", k, StartpageAnswer[max_results * 2][k],
                     max_results * 2, "duckduckgo_lite")

\* Step 4: DuckDuckGo Lite.
TryDuckDuckGoLite ==
    /\ pc = "duckduckgo_lite"
    /\ \E k \in 1..RawCount :
        ProviderStep("duckduckgo_lite", "duckduckgo_lite", k,
                     DuckDuckGoLiteAnswer[max_results * 2][k],
                     max_results * 2, "playwright_google")

\* Step 5: Google through Playwright; lines 538-540 return [] when it yields nothing.
TryPlaywrightGoogle ==
    /\ pc = "playwright_google"
    /\ \E k \in 1..RawCount :
        ProviderStep("playwright_google", "playwright_google", k,
                     RunSearch(event_loop, PlaywrightGoogleAnswer[max_results][k]),
                     max_results, "process")

\* A variant that hands the caller the catalog matches when the web search
\* yields nothing.
ReturnCandidatesOrKnown ==
    /\ pc = "process"
    /\ candidates' = IF results = <<>> THEN Take(known_results, max_results)
                     ELSE ProcessResults(results, college_name, max_results)
    /\ pc' = "done"
    /\ UNCHANGED << input_name, college_name, force_web_search, max_results,
                    known_results, known_consulted, query, results, calls, saw_excluded,
                    event_loop >>
    /\ UNCHANGED resolve_others

\* Lines 538-582.
ReturnCandidates ==
    /\ pc = "process"
    /\ candidates' = IF results = <<>> THEN <<>>
                     ELSE ProcessResults(results, college_name, max_results)
    /\ pc' = "done"
    /\ UNCHANGED << input_name, college_name, force_web_search, max_results,
                    known_results, known_consulted, query, results, calls, saw_excluded,
                    event_loop >>
    /\ UNCHANGED resolve_others

ResolveNext ==
    \/ CheckKnownColleges
    \/ TrySearxng
    \/ TryStartpage
    \/ TryDuckDuckGoLite
    \/ TryPlaywrightGoogle
    \/ ReturnCandidates

\* resolve: one call of search_college_website.
Init == ResolveInit /\ ExtractIdle /\ AdequateIdle /\ AggIdle /\ ChatIdle /\ FetchIdle
        /\ QuickIdle /\ ScanIdle /\ DiscoveryIdle /\ RequestsIdle /\ event_loop \in EventLoops
Next == ResolveNext
Spec == Init /\ [][Next]_vars


(***************************************************************************)
(* Properties of resolve.                                                  *)
(***************************************************************************)
Returned == pc = "done"

ViaWebSearch == calls # <<>>

CandidateDomain(c) == Lower(UrlNetloc(c.url))

CuratedKeys == { KNOWN_COLLEGES[i].key : i \in 1..Len(KNOWN_COLLEGES) }

\* C1: in every list resolve returns, on every path, no medium-confidence
\* candidate precedes a high-confidence candidate.
C1_NoMediumBeforeHigh ==
    Returned =>
        \A i, j \in 1..Len(candidates) :
            i < j => ~(candidates[i].confidence = "medium" /\ candidates[j].confidence = "high")

\* C2: no candidate resolve returns, on any path, has a domain that matches an
\* entry of the static exclusion list.
C2_NoExcludedDomain ==
    Returned => \A i \in 1..Len(candidates) : ~OnExclusionList(CandidateDomain(candidates[i]))

\* C2 witness: a web search whose response listed an excluded domain returned candidates.
C2_Witness ==
    Returned /\ ViaWebSearch /\ saw_excluded /\ candidates # <<>>

\* C3: for a name whose trimmed, lowercased form is a curated-catalog key,
\* resolve without forced web search returns exactly one candidate, with
\* confidence high and the URL the catalog stores for that key.
C3_ExactCuratedHit ==
    (Returned /\ ~force_web_search /\ Strip(Lower(input_name)) \in CuratedKeys) =>
        /\ Len(candidates) = 1
        /\ candidates[1].confidence = "high"
        /\ candidates[1].url = KNOWN_COLLEGES[KeyIndex(KNOWN_COLLEGES, Strip(Lower(input_name)))].url

\* C3 witness: a name that needs trimming and lowercasing to equal a key was resolved.
C3_Witness ==
    /\ Returned /\ ~force_web_search
    /\ input_name \notin CuratedKeys
    /\ Strip(Lower(input_name)) \in CuratedKeys
    /\ Len(candidates) = 1

\* C4: with forced web search the Known-Entity Resolver is never consulted,
\* every returned candidate comes from the provider chain's response, and when
\* every provider returns nothing the result is the empty list.
C4_ForcedWebSearch ==
    force_web_search =>
        /\ ~known_consulted
        /\ known_results = <<>>
        /\ Returned =>
            /\ \A i \in 1..Len(candidates) :
                    \E k \in 1..Len(results) : results[k].href = candidates[i].url
            /\ results = <<>> => (candidates = <<>> /\ Len(calls) = 4)

\* C4 witness: a forced web search for a curated-catalog key returned candidates.
C4_Witness ==
    /\ Returned /\ force_web_search
    /\ Strip(Lower(input_name)) \in CuratedKeys
    /\ candidates # <<>>

\* The registry entry a URL-less match was built from.
RegistryEntry(m) == CHOOSE e \in SeqToSet(ALL_INSTITUTIONS) : e.name = m.name

RegistryOnly(known) == known # <<>> /\ \A i \in 1..Len(known) : known[i].url = ""

\* C10: when web search is not forced and the Known-Entity Resolver returns
\* only URL-less registry results, every provider is called with the query
\* "{name} {district}, {state} official website" of the best registry match,
\* not with the raw input name.
C10_RefinedQuery ==
    (~force_web_search /\ RegistryOnly(known_results)) =>
        \A i \in 1..Len(calls) :
            LET e == RegistryEntry(known_results[1])
            IN  /\ calls[i].query =
                      e.name \o " " \o e.district \o ", " \o e.state \o " official website"
                /\ calls[i].query # input_name \o " official website"

\* C10 witness: the end-to-end scenario of the specification.
C10_Witness ==
    /\ ~force_web_search
    /\ input_name = "Acme Institute of Technology"
    /\ RegistryOnly(known_results)
    /\ calls # <<>>
    /\ calls[1].provider = "searxng"
    /\ calls[1].query = "Acme Institute of Technology Pune, Maharashtra official website"

(***************************************************************************)
(* extract_text_content (dynamic_scraper.py and playwright_scraper.py).    *)
(* A document is its elements in document order, an element its tag and    *)
(* the lines of text in it, and a line the blanks around it and the number *)
(* of characters between them. A text is the characters kept of the joined *)
(* lines and the suffix put after them.                                    *)
(***************************************************************************)

\* CONTENT_LIMIT = 12000  # Max chars per page (dynamic_scraper.py)
CONTENT_LIMIT == 12000

\* CONTENT_LIMIT = 8000  # Max chars per page (playwright_scraper.py)
PLAYWRIGHT_CONTENT_LIMIT == 8000

\* The elements that are decomposed before the text is taken.
REMOVED_ELEMENTS ==
    { "script", "style", "nav", "footer", "header", "aside", "noscript", "iframe", "form" }

Line(blanks, chars) == [blanks |-> blanks, chars |-> chars]

Element(tag, lines) == [tag |-> tag, lines |-> lines]

\* soup.get_text(separator="\n", strip=True).splitlines(): the lines of the elements left.
RECURSIVE GetTextLines(_)
GetTextLines(doc) ==
    IF doc = <<>> THEN <<>>
    ELSE IF Head(doc).tag \in REMOVED_ELEMENTS THEN GetTextLines(Tail(doc))
         ELSE Head(doc).lines \o GetTextLines(Tail(doc))

\* len(line.strip()): the blanks around the line are dropped.
StrippedLen(line) == line.chars

\* [line.strip() for line in ... if line.strip() and len(line.strip()) > 3]
RECURSIVE CleanLines(_)
CleanLines(lines) ==
    IF lines = <<>> THEN <<>>
    ELSE IF StrippedLen(Head(lines)) > 0 /\ StrippedLen(Head(lines)) > 3
         THEN << StrippedLen(Head(lines)) >> \o CleanLines(Tail(lines))
         ELSE CleanLines(Tail(lines))

\* len("\n".join(lines)); no run of three newlines is left for re.sub to shorten.
RECURSIVE JoinedLen(_)
JoinedLen(lens) ==
    IF lens = <<>> THEN 0
    ELSE IF Len(lens) = 1 THEN lens[1]
         ELSE lens[1] + 1 + JoinedLen(Tail(lens))

Text(chars, suffix) == [chars |-> chars, suffix |-> suffix]

\* if len(text) > CONTENT_LIMIT: text = text[:CONTENT_LIMIT] + "..."
LimitLength(chars, limit) ==
    IF chars > limit THEN Text(limit, "...") ELSE Text(chars, "")

\* len(text)
TextLen(t) == t.chars + Len(t.suffix)

\* dynamic_scraper.extract_text_content
extract_text_content(doc) ==
    LimitLength(JoinedLen(CleanLines(GetTextLines(doc))), CONTENT_LIMIT)

\* playwright_scraper.extract_text_content
playwright_extract_text_content(doc) ==
    LimitLength(JoinedLen(CleanLines(GetTextLines(doc))), PLAYWRIGHT_CONTENT_LIMIT)

MaxElements == 3

ElementPool ==
    { Element("p", << Line(0, 5000) >>),
      Element("p", << Line(2, 11999) >>),
      Element("div", << Line(4, 3), Line(0, 7000) >>),
      Element("script", << Line(0, 20000) >>),
      Element("li", << Line(1, 1000), Line(3, 0), Line(0, 1999) >>),
      Element("td", << Line(0, 8000) >>) }

Documents == UNION { [1..n -> ElementPool] : n \in 0..MaxElements }

ExtractInit ==
    /\ extract_pc = "call"
    /\ html \in Documents
    /\ text = Text(0, "")
    /\ playwright_text = Text(0, "")

\* The call of dynamic_scraper.extract_text_content on the document.
ExtractDynamic ==
    /\ extract_pc \in {"call", "playwright_done"}
    /\ text' = extract_text_content(html)
    /\ extract_pc' = IF extract_pc = "call" THEN "dynamic_done" ELSE "done"
    /\ UNCHANGED << html, playwright_text >>
    /\ UNCHANGED extract_others

\* The call of playwright_scraper.extract_text_content on the document.
ExtractPlaywright ==
    /\ extract_pc \in {"call", "dynamic_done"}
    /\ playwright_text' = playwright_extract_text_content(html)
    /\ extract_pc' = IF extract_pc = "call" THEN "playwright_done" ELSE "done"
    /\ UNCHANGED << html, text >>
    /\ UNCHANGED extract_others

ExtractNext ==
    \/ ExtractDynamic
    \/ ExtractPlaywright

\* The Content Extractor: extract_text_content of both scraper modules on one document.
ExtractStart ==
    /\ ExtractInit
    /\ ResolveIdle /\ AdequateIdle /\ AggIdle
    /\ ChatIdle /\ FetchIdle /\ QuickIdle /\ ScanIdle /\ DiscoveryIdle /\ RequestsIdle
    /\ ServerLoop
SpecExtract == ExtractStart /\ [][ExtractNext]_vars

\* C5: for every document, the text returned by the Content Extractor is at most
\* CONTENT_LIMIT characters long, also when the extracted text was longer and was cut.
C5_LengthWithinCap ==
    /\ (extract_pc \in {"dynamic_done", "done"} => TextLen(text) <= CONTENT_LIMIT)
    /\ (extract_pc \in {"playwright_done", "done"}
            => TextLen(playwright_text) <= PLAYWRIGHT_CONTENT_LIMIT)

(***************************************************************************)
(* has_specific_data (routers/chat.py). A content is a sequence of         *)
(* characters; a character outside ASCII is written by its name.           *)
(***************************************************************************)

RUPEE_SIGN == "U+20B9 RUPEE SIGN"
A_CIRCUMFLEX == "U+00E2 A WITH CIRCUMFLEX"
LOW_QUOTATION_MARK == "U+201A SINGLE LOW-9 QUOTATION MARK"
SUPERSCRIPT_ONE == "U+00B9 SUPERSCRIPT ONE"
NEWLINE == "U+000A LINE FEED"

\* The characters of an ASCII string.
Chars(s) == [i \in 1..Len(s) |-> CharAt(s, i)]

\* content.lower(): the named characters have no lower case of their own.
ContentLower(c) == [i \in 1..Len(c) |-> LowerChar(c[i])]

\* The regular expressions are run as automata over the positions of the content: each
\* operator takes the positions a match may have reached and gives those it may reach next.
Positions(c) == 1..(Len(c) + 1)

\* A literal.
Lit(c, S, w) ==
    { i + Len(w) : i \in { j \in S : j + Len(w) - 1 <= Len(c) /\ SubSeq(c, j, j + Len(w) - 1) = w } }

\* (w1|w2|...)
AnyOf(c, S, words) == UNION { Lit(c, S, w) : w \in words }

\* w?
Opt(c, S, w) == S \cup Lit(c, S, w)

\* [class]*
Star(c, S, class) ==
    { j \in Positions(c) : \E i \in S : i <= j /\ \A k \in i..(j - 1) : c[k] \in class }

\* [class]+
Plus(c, S, class) ==
    Star(c, { i + 1 : i \in { j \in S : j <= Len(c) /\ c[j] \in class } }, class)

\* \s and \d
SpaceClass == { " ", NEWLINE }
DigitClass == DigitChars

\* The first alternative of the fees pattern as the source file spells it: the three
\* characters before "|rs" are U+00E2, U+201A, U+00B9.
FeesCurrencyMarkers ==
    { << A_CIRCUMFLEX, LOW_QUOTATION_MARK, SUPERSCRIPT_ONE >>, Chars("rs"), Chars("rs."), Chars("inr") }

\* (markers)\s*\d+
CurrencyAmount(c, markers) ==
    Plus(c, Star(c, AnyOf(c, Positions(c), markers), SpaceClass), DigitClass) # {}

\* (\d+,?\d*)\s*(per|/)\s*(year|annum|semester)
PerPeriodAmount(c) ==
    LET number == Star(c, Opt(c, Plus(c, Positions(c), DigitClass), Chars(",")), DigitClass)
        per == AnyOf(c, Star(c, number, SpaceClass), { Chars("per"), Chars("/") })
    IN  AnyOf(c, Star(c, per, SpaceClass),
              { Chars("year"), Chars("annum"), Chars("semester") }) # {}

\* \d+\.?\d*\s*(lpa|lakhs?|crore?|cr|lakh|%)
PackageNumber(c) ==
    LET number == Star(c, Opt(c, Plus(c, Positions(c), DigitClass), Chars(".")), DigitClass)
    IN  AnyOf(c, Star(c, number, SpaceClass),
              { Chars("lpa"), Chars("lakh"), Chars("lakhs"), Chars("cror"), Chars("crore"),
                Chars("cr"), Chars("%") }) # {}

has_specific_data(c, intent) ==
    IF intent = "placements" THEN PackageNumber(ContentLower(c))
    ELSE IF intent = "fees"
         THEN CurrencyAmount(ContentLower(c), FeesCurrencyMarkers)
              \/ PerPeriodAmount(ContentLower(c))
         ELSE TRUE

MaxSegments == 3

FeesPerYear == << RUPEE_SIGN >> \o Chars("50,000 per year")
FeesApplicable == Chars("fees are applicable")

SegmentPool ==
    { << RUPEE_SIGN >>, Chars("Rs. "), Chars("INR"), Chars("50,000"), Chars(" per "),
      Chars("/"), Chars("year"), Chars(" "), Chars("45 LPA"),
      << A_CIRCUMFLEX, LOW_QUOTATION_MARK, SUPERSCRIPT_ONE >>,
      FeesPerYear, FeesApplicable }

RECURSIVE Concat(_)
Concat(segments) ==
    IF segments = <<>> THEN <<>> ELSE Head(segments) \o Concat(Tail(segments))

Contents == { Concat(ss) : ss \in UNION { [1..n -> SegmentPool] : n \in 0..MaxSegments } }

ContentIntents == { "placements", "fees", "admissions" }

AdequateInit ==
    /\ adequate_pc = "call"
    /\ content \in Contents
    /\ content_intent \in ContentIntents
    /\ has_data = FALSE

\* The call of has_specific_data.
EvaluateContent ==
    /\ adequate_pc = "call"
    /\ has_data' = has_specific_data(content, content_intent)
    /\ adequate_pc' = "done"
    /\ UNCHANGED << content, content_intent >>
    /\ UNCHANGED adequate_others

AdequateNext == EvaluateContent

\* The Adequacy Evaluator: one call of has_specific_data.
AdequateStart ==
    /\ AdequateInit
    /\ ResolveIdle /\ ExtractIdle /\ AggIdle
    /\ ChatIdle /\ FetchIdle /\ QuickIdle /\ ScanIdle /\ DiscoveryIdle /\ RequestsIdle
    /\ ServerLoop
SpecAdequate == AdequateStart /\ [][AdequateNext]_vars

\* A currency-marked amount: the rupee sign, Rs or INR followed by digits.
ClaimedCurrencyMarkers == { << RUPEE_SIGN >>, Chars("rs"), Chars("rs."), Chars("inr") }

Contains(c, w) == Lit(c, Positions(c), w) # {}

\* C9: isAdequate(text, fees) is true exactly when the text has a currency-marked amount
\* (the rupee sign, Rs or INR followed by digits) or a number followed by per or / and
\* year, annum or semester; it is true for a text with "(rupee sign)50,000 per year" and
\* false for the text "fees are applicable".
C9_FeesAdequacy ==
    (adequate_pc = "done" /\ content_intent = "fees")
        => /\ has_data <=> \/ CurrencyAmount(ContentLower(content), ClaimedCurrencyMarkers)
                           \/ PerPeriodAmount(ContentLower(content))
           /\ Contains(content, FeesPerYear) => has_data
           /\ content = FeesApplicable => ~has_data

(***************************************************************************)
(* scrape_from_aggregators (dynamic_scraper.py).                           *)
(***************************************************************************)

\* The keys of AGGREGATOR_SITES.
AGGREGATOR_INTENTS == { "placements", "fees", "admissions", "facilities" }

\* ['shiksha.com', 'collegedunia.com', 'careers360.com'] of line 380.
AGGREGATOR_DOMAINS == << "shiksha.com", "collegedunia.com", "careers360.com" >>

\* The keywords of line 382 besides the intent.
AGGREGATOR_KEYWORDS == { "placement", "fees", "admission", "hostel", "infra" }

\* max_results=3 of lines 371 and 375.
AGGREGATOR_MAX_RESULTS == 3

\* search_queries of lines 358-362.
search_queries(name, intent) ==
    [i \in 1..Len(AGGREGATOR_DOMAINS) |->
        "site:" \o AGGREGATOR_DOMAINS[i] \o " " \o name \o " " \o intent]

\* any(site in href for site in [...])
HasAggregatorSite(href) == \E i \in 1..Len(AGGREGATOR_DOMAINS) : IsSubstr(AGGREGATOR_DOMAINS[i], href)

\* intent in href.lower() or 'placement' in href.lower() or ...
HasIntentKeyword(href, intent) ==
    \E k \in AGGREGATOR_KEYWORDS \cup {intent} : IsSubstr(k, Lower(href))

\* A variant that takes the first result, whatever its site.
FirstResult(rs, intent) == IF rs = <<>> THEN "" ELSE Head(rs).href

\* Lines 378-385: the href of the first result on an aggregator site with a keyword, or "".
RECURSIVE FirstAggregatorHit(_, _)
FirstAggregatorHit(rs, intent) ==
    IF rs = <<>> THEN ""
    ELSE IF HasAggregatorSite(Head(rs).href) /\ HasIntentKeyword(Head(rs).href, intent)
         THEN Head(rs).href
         ELSE FirstAggregatorHit(Tail(rs), intent)

AggregatorRawList == Responses(AggregatorRawPool, MaxRaw)
AggregatorRawCount == ResponseCount(AggregatorRawPool, MaxRaw)

AggregatorDuckDuckGoLiteAnswer ==
    [k \in 1..AggregatorRawCount |->
        search_with_duckduckgo_lite(AggregatorRawList[k], AGGREGATOR_MAX_RESULTS)]

AggregatorSearxngAnswer ==
    [k \in 1..AggregatorRawCount |->
        search_with_searxng(AggregatorRawList[k], AGGREGATOR_MAX_RESULTS)]

\* The pages a render may give, by the lengths of their text.
AggregatorPages ==
    { << Element("p", << Line(0, 400) >>) >>,
      << Element("p", << Line(0, 500) >>) >>,
      << Element("p", << Line(0, 501) >>) >>,
      << Element("p", << Line(0, 9000) >>), Element("div", << Line(2, 9000) >>) >> }

\* The host of a listed URL is an aggregator's: the domain itself or a name under it.
OnAggregatorDomain(href) ==
    /\ StartsWith(href, "http")
    /\ ~UrlRaises(href)
    /\ \E i \in 1..Len(AGGREGATOR_DOMAINS) :
           \/ Lower(UrlNetloc(href)) = AGGREGATOR_DOMAINS[i]
           \/ EndsWith(Lower(UrlNetloc(href)), "." \o AGGREGATOR_DOMAINS[i])

\* The first URL of a raw response on an aggregator domain that contains the intent, or "".
RECURSIVE FirstListed(_, _)
FirstListed(raw, intent) ==
    IF raw = <<>> THEN ""
    ELSE IF OnAggregatorDomain(Head(raw).href) /\ IsSubstr(intent, Lower(Head(raw).href))
         THEN Head(raw).href
         ELSE FirstListed(Tail(raw), intent)

AggregatorNames == { "Acme Institute of Technology", "IIT Bombay" }

AggregatorIntentInputs == { "placements", "fees", "about" }

\* What every raw response lists for every intent, computed once.
AggregatorListed ==
    [intent \in AggregatorIntentInputs |->
        [k \in 1..AggregatorRawCount |-> FirstListed(AggregatorRawList[k], intent)]]

\* Whether a provider's answer holds a result on an aggregator domain.
Yields(answers) ==
    [k \in DOMAIN answers |->
        \E i \in 1..Len(answers[k]) : OnAggregatorDomain(answers[k][i].href)]

DuckDuckGoLiteYields == Yields(AggregatorDuckDuckGoLiteAnswer)
SearxngYields == Yields(AggregatorSearxngAnswer)

AggInit ==
    /\ agg_pc = "start"
    /\ agg_college_name \in AggregatorNames
    /\ agg_intent \in AggregatorIntentInputs
    /\ query_index = 0
    /\ found_url = ""
    /\ agg_calls = <<>>
    /\ agg_listed = ""
    /\ agg_rendered = ""
    /\ agg_text = Text(0, "")
    /\ agg_data = <<>>
    /\ agg_yielded = FALSE
    /\ agg_results = <<>>

\* Lines 352-364.
StartAggregators ==
    /\ agg_pc = "start"
    /\ IF agg_intent \notin AGGREGATOR_INTENTS
       THEN agg_pc' = "done" /\ UNCHANGED query_index
       ELSE agg_pc' = "duckduckgo_lite" /\ query_index' = 1
    /\ agg_data' = <<>>
    /\ UNCHANGED << agg_college_name, agg_intent, found_url, agg_calls, agg_listed,
                    agg_rendered, agg_text, agg_yielded, agg_results >>
    /\ UNCHANGED agg_others

\* Lines 377-387 on the results of one query: the hit ends the loop, otherwise the next
\* query is tried, and the loop ends after the last.
SelectFrom(rs) ==
    LET hit == FirstAggregatorHit(rs, agg_intent)
    IN  /\ found_url' = hit
        /\ IF hit # "" \/ query_index = Len(AGGREGATOR_DOMAINS)
           THEN agg_pc' = "scrape" /\ UNCHANGED query_index
           ELSE agg_pc' = "duckduckgo_lite" /\ query_index' = query_index + 1

AggregatorCall(provider) ==
    Call(provider, search_queries(agg_college_name, agg_intent)[query_index],
         AGGREGATOR_MAX_RESULTS)

NoteListed(k) ==
    agg_listed' = IF agg_listed # "" THEN agg_listed ELSE AggregatorListed[agg_intent][k]

NoteYielded(yields) == agg_yielded' = (agg_yielded \/ yields)

\* A variant that goes on to SearXNG whatever DuckDuckGo Lite answered.
AlwaysToSearxng(rs) == agg_pc' = "searxng" /\ UNCHANGED << query_index, found_url >>

\* Lines 373-377 after DuckDuckGo Lite: SearXNG is asked when the answer is empty,
\* otherwise the answer is searched for an aggregator link.
AfterDuckDuckGoLite(rs) ==
    IF rs = <<>>
    THEN agg_pc' = "searxng" /\ UNCHANGED << query_index, found_url >>
    ELSE SelectFrom(rs)

\* Line 371: DuckDuckGo Lite is tried first.
QueryDuckDuckGoLite ==
    /\ agg_pc = "duckduckgo_lite"
    /\ \E k \in 1..AggregatorRawCount :
          /\ NoteListed(k)
          /\ NoteYielded(DuckDuckGoLiteYields[k])
          /\ agg_results' = AggregatorDuckDuckGoLiteAnswer[k]
          /\ AfterDuckDuckGoLite(AggregatorDuckDuckGoLiteAnswer[k])
    /\ agg_calls' = Append(agg_calls, AggregatorCall("duckduckgo_lite"))
    /\ UNCHANGED << agg_college_name, agg_intent, agg_rendered, agg_text, agg_data >>
    /\ UNCHANGED agg_others

\* Lines 373-375: SearXNG when DuckDuckGo Lite gave nothing.
QuerySearxng ==
    /\ agg_pc = "searxng"
    /\ \E k \in 1..AggregatorRawCount :
          /\ NoteListed(k)
          /\ NoteYielded(SearxngYields[k])
          /\ agg_results' = AggregatorSearxngAnswer[k]
          /\ SelectFrom(AggregatorSearxngAnswer[k])
    /\ agg_calls' = Append(agg_calls, AggregatorCall("searxng"))
    /\ UNCHANGED << agg_college_name, agg_intent, agg_rendered, agg_text, agg_data >>
    /\ UNCHANGED agg_others

\* page.goto loads the URLs of the schemes the browser fetches pages with; for any other
\* scheme the navigation ends in an error.
Renderable(url) == UrlScheme(url) \in { "http", "https" }

\* Lines 389-444: None without a found URL; otherwise the render of the URL, which
\* fails or gives a page, and the record when its text is longer than 500 characters.
ScrapeAggregatorPage ==
    /\ agg_pc = "scrape"
    /\ IF found_url = ""
       THEN agg_data' = <<>> /\ UNCHANGED << agg_rendered, agg_text >>
       ELSE /\ agg_rendered' = found_url
            /\ \/ agg_data' = <<>> /\ UNCHANGED agg_text
               \/ \E page \in AggregatorPages :
                     /\ Renderable(found_url)
                     /\ agg_text' = extract_text_content(page)
                     /\ agg_data' =
                          IF TextLen(extract_text_content(page)) > 500
                          THEN << [page_type |-> agg_intent,
                                   content_text |-> extract_text_content(page),
                                   source_url |-> found_url] >>
                          ELSE <<>>
    /\ agg_pc' = "done"
    /\ UNCHANGED << agg_college_name, agg_intent, query_index, found_url, agg_calls,
                    agg_listed, agg_yielded, agg_results >>
    /\ UNCHANGED agg_others

AggNext ==
    \/ StartAggregators
    \/ QueryDuckDuckGoLite
    \/ QuerySearxng
    \/ ScrapeAggregatorPage

\* The Aggregator Fallback Resolver: one call of scrape_from_aggregators.
AggStart ==
    /\ AggInit
    /\ ResolveIdle /\ ExtractIdle /\ AdequateIdle
    /\ ChatIdle /\ FetchIdle /\ QuickIdle /\ ScanIdle /\ DiscoveryIdle /\ RequestsIdle
    /\ ServerLoop
SpecAgg == AggStart /\ [][AggNext]_vars

\* C6: for a supported topic, when the raw response of a provider to an aggregator query
\* lists a URL on an aggregator domain that contains the topic keyword, the call selects
\* that URL, renders it, and returns a record exactly when the extracted text is longer
\* than 500 characters.
C6_ListedAggregatorUrlIsScraped ==
    (agg_pc = "done" /\ agg_intent \in AGGREGATOR_INTENTS /\ agg_listed # "")
        => /\ found_url # ""
           /\ OnAggregatorDomain(found_url)
           /\ agg_rendered = found_url
           /\ agg_data # <<>> <=> TextLen(agg_text) > 500

(***************************************************************************)
(* chat (routers/chat.py): one request, from its checks to its response.   *)
(***************************************************************************)

\* The intents the scrape is forced for (line 80).
FORCED_INTENTS == { "placements", "fees", "admissions", "facilities", "about" }

\* What the classifier may answer.
ClassifierIntents == { "placements", "fees", "about", "general" }

\* The texts a page may hold.
PageContents == { FeesPerYear, FeesApplicable, Chars("Highest package 45 LPA"),
                  Chars("Our campus"), << RUPEE_SIGN >> \o Chars("85,000") }

PageRecord(page_type, content_text, source_url) ==
    [page_type |-> page_type, content_text |-> content_text, source_url |-> source_url]

\* The College rows a request may name.
CollegeRows ==
    { [college_name |-> "Acme Institute of Technology", official_domain |-> "acme-technology.com",
       scraped |-> s] : s \in BOOLEAN }

\* The CollegePage rows stored for the college when the request arrives.
StoredPages ==
    { <<>> } \cup
    { << PageRecord(t, c, "https://acme-technology.com") >> :
          t \in { "general", "fees", "placements" }, c \in PageContents }

Response(status, source_page) == [status |-> status, source_page |-> source_page]

ChatInit ==
    /\ chat_pc = "request"
    /\ question_length \in { 2, 3, 40 }
    /\ college \in { <<>> } \cup { << row >> : row \in CollegeRows }
    /\ chat_intent = ""
    /\ needs_scrape = FALSE
    /\ pages_data \in StoredPages
    /\ has_good_data = FALSE
    /\ new_page_data = <<>>
    /\ official_scraped = FALSE
    /\ aggregator_invoked = FALSE
    /\ chat_response = <<>>

\* Lines 48-65: the checks of the request.
CheckRequest ==
    /\ chat_pc = "request"
    /\ IF question_length < 3
       THEN chat_response' = << Response(400, "") >> /\ chat_pc' = "done"
       ELSE IF college = <<>>
            THEN chat_response' = << Response(404, "") >> /\ chat_pc' = "done"
            ELSE IF ~college[1].scraped
                 THEN chat_response' = << Response(400, "") >> /\ chat_pc' = "done"
                 ELSE chat_pc' = "classify" /\ UNCHANGED chat_response
    /\ UNCHANGED << question_length, college, chat_intent, needs_scrape, pages_data,
                    has_good_data, new_page_data, official_scraped, aggregator_invoked >>
    /\ UNCHANGED chat_others

\* Lines 70-92: the classification, the forcing of the scrape, and the answer from the
\* model's knowledge when no scrape is needed.
ClassifyQuestion ==
    /\ chat_pc = "classify"
    /\ \E needs \in BOOLEAN, intent \in ClassifierIntents :
          LET forced == needs \/ intent \in FORCED_INTENTS
          IN  /\ chat_intent' = intent
              /\ needs_scrape' = forced
              /\ IF ~forced
                 THEN chat_response' = << Response(200, "LLM knowledge") >> /\ chat_pc' = "done"
                 ELSE chat_pc' = "cached" /\ UNCHANGED chat_response
    /\ UNCHANGED << question_length, college, pages_data, has_good_data, new_page_data,
                    official_scraped, aggregator_invoked >>
    /\ UNCHANGED chat_others

\* next((p["content_text"] for p in pages_data if p["page_type"] == intent), "")
RECURSIVE IntentContent(_, _)
IntentContent(pages, intent) ==
    IF pages = <<>> THEN <<>>
    ELSE IF Head(pages).page_type = intent THEN Head(pages).content_text
         ELSE IntentContent(Tail(pages), intent)

\* Lines 94-113: the stored pages and whether they hold good data for the intent.
CheckCached ==
    /\ chat_pc = "cached"
    /\ has_good_data' =
          IF IntentContent(pages_data, chat_intent) # <<>>
          THEN has_specific_data(IntentContent(pages_data, chat_intent), chat_intent)
          ELSE FALSE
    /\ chat_pc' = "official"
    /\ UNCHANGED << question_length, college, chat_intent, needs_scrape, pages_data,
                    new_page_data, official_scraped, aggregator_invoked, chat_response >>
    /\ UNCHANGED chat_others

\* The condition of line 116.
ScrapeTriggered ==
    \/ \A i \in 1..Len(pages_data) : pages_data[i].page_type # chat_intent
    \/ ~has_good_data
    \/ TRUE

\* Lines 116-137: the scrape of the official site. scrape_for_intent raises, returns
\* None, or returns a record of the intent's page or of the general page.
ScrapeOfficial ==
    /\ chat_pc = "official"
    /\ IF ScrapeTriggered
       THEN /\ official_scraped' = TRUE
            /\ chat_pc' = "aggregators"
            /\ \/ UNCHANGED << new_page_data, pages_data >>
               \/ \E t \in { chat_intent, "general" }, c \in PageContents :
                     LET record == PageRecord(t, c, "https://" \o college[1].official_domain)
                     IN  /\ new_page_data' = << record >>
                         /\ pages_data' = Append(pages_data, record)
       ELSE /\ chat_pc' = "answer"
            /\ UNCHANGED << official_scraped, new_page_data, pages_data >>
    /\ UNCHANGED << question_length, college, chat_intent, needs_scrape, has_good_data,
                    aggregator_invoked, chat_response >>
    /\ UNCHANGED chat_others

\* Lines 139-155: scrape_from_aggregators is called whatever the official scrape gave; it
\* raises, returns None, or returns a record.
ScrapeAggregators ==
    /\ chat_pc = "aggregators"
    /\ aggregator_invoked' = TRUE
    /\ \/ UNCHANGED pages_data
       \/ \E c \in PageContents :
             pages_data' = Append(pages_data,
                                  PageRecord(chat_intent, c, "https://www.shiksha.com"))
    /\ chat_pc' = "answer"
    /\ UNCHANGED << question_length, college, chat_intent, needs_scrape, has_good_data,
                    new_page_data, official_scraped, chat_response >>
    /\ UNCHANGED chat_others

\* Lines 157-193: the answer, from the model's knowledge when no page is in hand.
AnswerQuestion ==
    /\ chat_pc = "answer"
    /\ chat_response' = IF pages_data = <<>>
                        THEN << Response(200, "LLM knowledge") >>
                        ELSE << Response(200, "pages") >>
    /\ chat_pc' = "done"
    /\ UNCHANGED << question_length, college, chat_intent, needs_scrape, pages_data,
                    has_good_data, new_page_data, official_scraped, aggregator_invoked >>
    /\ UNCHANGED chat_others

ChatNext ==
    \/ CheckRequest
    \/ ClassifyQuestion
    \/ CheckCached
    \/ ScrapeOfficial
    \/ ScrapeAggregators
    \/ AnswerQuestion

ChatStart ==
    /\ ChatInit
    /\ ResolveIdle /\ ExtractIdle /\ AdequateIdle
    /\ AggIdle /\ FetchIdle /\ QuickIdle /\ ScanIdle /\ DiscoveryIdle /\ RequestsIdle
    /\ ServerLoop

\* The chat handler: one request.
SpecChat == ChatStart /\ [][ChatNext]_vars

\* The content obtained from the official site passes the adequacy check for the topic.
OfficialContentAdequate ==
    /\ new_page_data # <<>>
    /\ has_specific_data(new_page_data[1].content_text, chat_intent)

\* C7: the Aggregator Fallback Resolver is invoked only when the content obtained from the
\* official site fails the adequacy check for the topic; with adequate official content
\* no aggregator search or scrape is performed.
C7_AggregatorOnlyWhenInadequate ==
    aggregator_invoked => ~OfficialContentAdequate

(***************************************************************************)
(* discover_portal_urls, scrape_with_discovery and scrape_for_intent       *)
(* (dynamic_scraper.py). A rendered page is its HTTP status, its document, *)
(* the src of its iframes and the href and text of its anchors.            *)
(***************************************************************************)

INTENT_URL_PATTERNS(i) ==
    CASE i = "placements" -> << "placement", "career", "ocs", "tpo", "recruit", "training" >>
      [] i = "fees" -> << "fee", "tuition", "payment", "scholarship" >>
      [] i = "admissions" -> << "admission", "apply", "eligibility", "intake" >>
      [] i = "about" -> << "about", "overview", "history" >>
      [] i = "facilities" -> << "hostel", "accommodation", "campus", "infrastructure",
                                "facility", "amenity", "library", "mess" >>
      [] OTHER -> <<>>

INTENT_TO_PATHS(i) ==
    CASE i = "placements" -> << "/placements", "/placement", "/careers", "/ocs", "/tpo" >>
      [] i = "fees" -> << "/fees", "/fee-structure", "/tuition" >>
      [] i = "admissions" -> << "/admissions", "/admission", "/apply" >>
      [] i = "about" -> << "/about", "/about-us", "/overview" >>
      [] i = "facilities" -> << "/hostels", "/facilities", "/infrastructure", "/campus",
                                "/amenities", "/campus-life" >>
      [] OTHER -> <<>>

\* any(p in s for p in patterns)
MatchesPattern(s, patterns) == \E k \in 1..Len(patterns) : IsSubstr(patterns[k], s)

\* s.startswith((p1, p2, ...))
StartsWithAny(s, prefixes) == \E p \in prefixes : StartsWith(s, p)

\* The scheme and netloc of a URL, as urljoin keeps them.
UrlOrigin(url) == UrlScheme(url) \o "://" \o UrlNetloc(url)

\* The path of a URL that has a netloc and neither query nor fragment.
UrlPath(url) == SubSeq(url, Len(UrlOrigin(url)) + 1, Len(url))

\* The path up to and with its last "/".
RECURSIVE DirOf(_)
DirOf(path) ==
    IF path = "" THEN "/"
    ELSE IF CharAt(path, Len(path)) = "/" THEN path
         ELSE DirOf(SubSeq(path, 1, Len(path) - 1))

\* urljoin(base, ref) for a ref without scheme: "//host/path" takes the base's scheme,
\* "/path" its origin, and a relative path its directory.
UrlJoin(base, ref) ==
    IF StartsWith(ref, "//") THEN UrlScheme(base) \o ":" \o ref
    ELSE IF StartsWith(ref, "/") THEN UrlOrigin(base) \o ref
         ELSE UrlOrigin(base) \o DirOf(UrlPath(base)) \o ref

\* Lines 97-98 and 109-110.
Absolute(base, ref) == IF StartsWith(ref, "http") THEN ref ELSE UrlJoin(base, ref)

Page(status, doc, frames, anchors) ==
    [status |-> status, doc |-> doc, frames |-> frames, anchors |-> anchors]

Anchor(href, label) == [href |-> href, label |-> label]

\* Lines 94-99: the iframes that are kept, as ("iframe", src) pairs.
RECURSIVE FrameItems(_, _)
FrameItems(frames, base) ==
    IF frames = <<>> THEN <<>>
    ELSE LET src == Head(frames)
         IN  IF src # "" /\ ~StartsWithAny(src, { "data:", "javascript:", "about:" })
             THEN << << "iframe", Absolute(base, src) >> >> \o FrameItems(Tail(frames), base)
             ELSE FrameItems(Tail(frames), base)

\* Line 106: the anchors that are looked at.
Followed(href) == href # "" /\ ~StartsWithAny(href, { "#", "javascript:", "mailto:", "tel:" })

\* base_domain and link_domain: the netloc without "www.".
Domain(url) == Remove(UrlNetloc(url), "www.")

\* Lines 102-122: the anchors that are kept, as ("link", href) pairs.
RECURSIVE LinkItems(_, _, _)
LinkItems(anchors, base, patterns) ==
    IF anchors = <<>> THEN <<>>
    ELSE LET a == Head(anchors)
             href == Absolute(base, a.href)
             is_subdomain == IsSubstr(Domain(base), Domain(href)) /\ Domain(href) # Domain(base)
             matches_pattern == \E k \in 1..Len(patterns) :
                                    \/ IsSubstr(patterns[k], Lower(href))
                                    \/ IsSubstr(patterns[k], Lower(Strip(a.label)))
         IN  IF Followed(a.href) /\ (is_subdomain \/ matches_pattern)
             THEN << << "link", href >> >> \o LinkItems(Tail(anchors), base, patterns)
             ELSE LinkItems(Tail(anchors), base, patterns)

\* Lines 125-130: the first item of every URL.
RECURSIVE Unique(_, _)
Unique(items, seen) ==
    IF items = <<>> THEN <<>>
    ELSE IF Head(items)[2] \in seen THEN Unique(Tail(items), seen)
         ELSE << Head(items) >> \o Unique(Tail(items), seen \cup { Head(items)[2] })

\* Lines 133-142.
priority(item, base) ==
    IF item[1] = "iframe" THEN 0
    ELSE IF IsSubstr(Domain(base), UrlNetloc(item[2])) /\ UrlNetloc(item[2]) # Domain(base)
         THEN 1
         ELSE 2

\* The URLs urlparse and urljoin are given: those of the iframes kept and of the anchors
\* looked at. A ValueError of either leaves discover_portal_urls.
DiscoveryRaises(page, base) ==
    \/ UrlRaises(base)
    \/ \E k \in 1..Len(page.frames) :
          /\ page.frames[k] # ""
          /\ ~StartsWithAny(page.frames[k], { "data:", "javascript:", "about:" })
          /\ UrlRaises(Absolute(base, page.frames[k]))
    \/ \E k \in 1..Len(page.anchors) :
          /\ Followed(page.anchors[k].href)
          /\ UrlRaises(Absolute(base, page.anchors[k].href))

\* discover_portal_urls, when it does not raise: at most 5 URLs, iframes first, then
\* subdomains, then the other links.
discover_portal_urls(page, base, i) ==
    LET Prioritized(unique) ==
            SortByKey([k \in 1..Len(unique) |-> << priority(unique[k], base), unique[k] >>])
        TopFive(sorted) == [k \in 1..Len(Take(sorted, 5)) |-> sorted[k][2]]
    IN  TopFive(Prioritized(Unique(FrameItems(page.frames, base)
                                   \o LinkItems(page.anchors, base, INTENT_URL_PATTERNS(i)),
                                   {})))

\* Lines 262-263: the discovered URLs that contain one of the intent's patterns.
RECURSIVE MatchingPortals(_, _)
MatchingPortals(urls, i) ==
    IF urls = <<>> THEN <<>>
    ELSE IF MatchesPattern(Lower(Head(urls)), INTENT_URL_PATTERNS(i))
         THEN << Head(urls) >> \o MatchingPortals(Tail(urls), i)
         ELSE MatchingPortals(Tail(urls), i)

\* A document with one paragraph of n characters.
Paragraph(n) == << Element("p", << Line(0, n) >>) >>

\* The pages a render may give.
FetchPages ==
    { Page(200, Paragraph(5000), <<>>, <<>>),
      Page(200, Paragraph(350),
           << "https://portal.acme.edu/embed" >>,
           << Anchor("/placements", "Placements"),
              Anchor("https://ocs.acme.edu/stats", " Career Services ") >>),
      Page(200, Paragraph(250), <<>>, << Anchor("#top", "Top"), Anchor("http://[", "Map") >>),
      Page(200, Paragraph(250), <<>>, << Anchor("/fees", "Fee structure") >>),
      Page(200, Paragraph(50), <<>>,
           << Anchor("https://placements.acme.edu/", ""),
              Anchor("mailto:office@acme.edu", "Placement office") >>),
      Page(200, Paragraph(150), <<>>, <<>>),
      Page(404, Paragraph(600), <<>>, <<>>) }

BaseUrls == { "https://www.acme.edu" }

FetchIntents == { "placements", "fees", "general" }

\* The record of a call of scrape_with_discovery: the status of the page it rendered (0
\* when the render failed), the length of the page's own text, whether the page's portals
\* were discovered, how many there were and how many were rendered, the longest text a
\* rendered portal gave, the text the next portal holds when the loop ends before it, and
\* the length of the content at line 212 with the status of the page it came from.
NoStep ==
    [status |-> 0, initial |-> -1, discovery |-> FALSE, candidates |-> 0, rendered |-> 0,
     longest |-> -1, unseen |-> -1, kept |-> -1, kept_status |-> 0]

FetchInit ==
    /\ fetch_pc = "scan"
    /\ base_url \in BaseUrls
    /\ fetch_intent \in FetchIntents
    /\ discovered_urls = <<>>
    /\ path_index = 0
    /\ sd_pc = "idle"
    /\ sd_url = ""
    /\ sd_content = Text(0, "")
    /\ sd_portals = <<>>
    /\ content_url = ""
    /\ fallback_text = <<>>
    /\ page_data = <<>>
    /\ scan_status = 0
    /\ scan_portals = <<>>
    /\ attempts = <<>>
    /\ last_length = -1
    /\ failures = {}
    /\ step = NoStep

\* Lines 252-279: the homepage scan. The render fails, or the page's portals are
\* discovered whatever its status; an exception of either goes on to the standard paths.
ScanHomepage ==
    /\ fetch_pc = "scan"
    /\ \/ /\ discovered_urls' = <<>>
          /\ scan_status' = -1
          /\ failures' = failures \cup { "scan" }
       \/ \E page \in FetchPages :
             /\ discovered_urls' =
                   IF DiscoveryRaises(page, base_url) THEN <<>>
                   ELSE MatchingPortals(discover_portal_urls(page, base_url, fetch_intent),
                                        fetch_intent)
             /\ scan_status' = page.status
             /\ UNCHANGED failures
    /\ scan_portals' = discovered_urls'
    /\ fetch_pc' = "portals"
    /\ UNCHANGED << base_url, fetch_intent, path_index, sd_pc, sd_url, sd_content, sd_portals,
                    content_url, fallback_text, page_data, attempts, last_length, step >>
    /\ UNCHANGED fetch_others

\* The call scrape_with_discovery(url, intent).
CallScrapeWithDiscovery(url) ==
    /\ sd_pc' = "goto"
    /\ sd_url' = url
    /\ sd_content' = Text(0, "")
    /\ sd_portals' = <<>>
    /\ content_url' = ""
    /\ attempts' = Append(attempts, url)
    /\ last_length' = -1
    /\ step' = NoStep

\* Lines 262-265: the next matching portal of the homepage scan.
TryPortal ==
    /\ fetch_pc = "portals" /\ sd_pc = "idle"
    /\ discovered_urls # <<>>
    /\ CallScrapeWithDiscovery(Head(discovered_urls))
    /\ discovered_urls' = Tail(discovered_urls)
    /\ UNCHANGED << fetch_pc, base_url, fetch_intent, path_index, fallback_text, page_data,
                    scan_status, scan_portals, failures >>
    /\ UNCHANGED fetch_others

\* A variant that goes to the standard paths while portals are left.
TryPathSkippingPortals ==
    /\ \/ fetch_pc = "portals" /\ path_index' = 1
       \/ fetch_pc = "paths" /\ path_index' = path_index
    /\ sd_pc = "idle"
    /\ path_index' <= Len(INTENT_TO_PATHS(fetch_intent))
    /\ fetch_pc' = "paths"
    /\ CallScrapeWithDiscovery(UrlJoin(base_url, INTENT_TO_PATHS(fetch_intent)[path_index']))
    /\ UNCHANGED << base_url, fetch_intent, discovered_urls, fallback_text, page_data,
                    scan_status, scan_portals, failures >>
    /\ UNCHANGED fetch_others

\* Lines 282-286: the next standard path, after the portals.
TryPath ==
    /\ \/ fetch_pc = "portals" /\ discovered_urls = <<>> /\ path_index' = 1
       \/ fetch_pc = "paths" /\ path_index' = path_index
    /\ sd_pc = "idle"
    /\ path_index' <= Len(INTENT_TO_PATHS(fetch_intent))
    /\ fetch_pc' = "paths"
    /\ CallScrapeWithDiscovery(UrlJoin(base_url, INTENT_TO_PATHS(fetch_intent)[path_index']))
    /\ UNCHANGED << base_url, fetch_intent, discovered_urls, fallback_text, page_data,
                    scan_status, scan_portals, failures >>
    /\ UNCHANGED fetch_others

\* Line 297: the base URL, after the standard paths.
TryBaseUrl ==
    /\ \/ fetch_pc = "portals" /\ discovered_urls = <<>>
          /\ INTENT_TO_PATHS(fetch_intent) = <<>>
       \/ fetch_pc = "paths" /\ path_index > Len(INTENT_TO_PATHS(fetch_intent))
    /\ sd_pc = "idle"
    /\ fetch_pc' = "base"
    /\ CallScrapeWithDiscovery(base_url)
    /\ UNCHANGED << base_url, fetch_intent, discovered_urls, path_index, fallback_text,
                    page_data, scan_status, scan_portals, failures >>
    /\ UNCHANGED fetch_others

\* The return of scrape_with_discovery to scrape_for_intent (lines 267-272, 288-293 and
\* 299-306); v is <<>> for None and << text >> otherwise.
ReturnToCaller(v, from) ==
    /\ sd_pc' = "idle"
    /\ sd_portals' = <<>>
    /\ sd_content' = IF v = <<>> THEN Text(0, "") ELSE v[1]
    /\ content_url' = IF v = <<>> THEN "" ELSE from
    /\ last_length' = IF v = <<>> THEN -1 ELSE TextLen(v[1])
    /\ IF fetch_pc = "base"
       THEN /\ page_data' = IF v # <<>> /\ TextLen(v[1]) > 200
                            THEN << PageRecord("general", v[1], base_url) >>
                            ELSE <<>>
            /\ fetch_pc' = "done"
            /\ UNCHANGED path_index
       ELSE IF v # <<>> /\ TextLen(v[1]) > 300
            THEN /\ page_data' = << PageRecord(fetch_intent, v[1], sd_url) >>
                 /\ fetch_pc' = "done"
                 /\ UNCHANGED path_index
            ELSE /\ path_index' = IF fetch_pc = "paths" THEN path_index + 1 ELSE path_index
                 /\ UNCHANGED << page_data, fetch_pc >>

\* Lines 214-219: the end of scrape_with_discovery.
ReturnContent(c, from) ==
    ReturnToCaller(IF TextLen(c) < 100 THEN <<>> ELSE << c >>, from)

\* A variant in which a render that fails ends the whole operation.
RenderFailedAborts ==
    /\ sd_pc' = "idle"
    /\ sd_portals' = <<>>
    /\ sd_content' = Text(0, "")
    /\ content_url' = ""
    /\ last_length' = -1
    /\ page_data' = <<>>
    /\ fetch_pc' = "done"
    /\ UNCHANGED path_index

\* Lines 166-169 and 221-228: the render failed or answered with a status of 400 or more,
\* and scrape_with_discovery returns None.
RenderFailed == ReturnToCaller(<<>>, "")

\* Lines 164-180: the render of the URL. It fails or answers with a status of 400 or
\* more, and None is returned; or the page's text is extracted and, when it is shorter
\* than 500 characters, the page's portals are discovered. A ValueError of the discovery
\* is caught at line 225, and None is returned.
RenderUrl ==
    /\ sd_pc = "goto"
    /\ \/ /\ RenderFailed
          /\ failures' = failures \cup { fetch_pc }
          /\ UNCHANGED << fallback_text, step >>
       \/ \E page \in FetchPages :
             LET Entered(n) == [NoStep EXCEPT !.status = page.status, !.initial = n,
                                              !.kept = n, !.kept_status = page.status]
                 Discovered(page_content, portals) ==
                     /\ step' = [Entered(TextLen(page_content)) EXCEPT
                                    !.discovery = TRUE, !.candidates = Len(portals)]
                     /\ IF portals = <<>>
                        THEN ReturnContent(page_content, sd_url)
                        ELSE /\ sd_pc' = "portal"
                             /\ sd_portals' = portals
                             /\ sd_content' = page_content
                             /\ content_url' = sd_url
                             /\ UNCHANGED << fetch_pc, path_index, page_data, last_length >>
                 Rendered(page_content) ==
                     /\ fallback_text' = IF fetch_pc = "base" THEN << page_content >>
                                         ELSE fallback_text
                     /\ UNCHANGED failures
                     /\ IF TextLen(page_content) >= 500
                        THEN /\ ReturnContent(page_content, sd_url)
                             /\ step' = Entered(TextLen(page_content))
                        ELSE IF DiscoveryRaises(page, sd_url)
                             THEN /\ ReturnToCaller(<<>>, "")
                                  /\ step' = [Entered(TextLen(page_content)) EXCEPT
                                                 !.discovery = TRUE,
                                                 !.kept = -1, !.kept_status = 0]
                             ELSE Discovered(page_content,
                                             discover_portal_urls(page, sd_url, fetch_intent))
             IN  IF page.status >= 400
                 THEN /\ RenderFailed
                      /\ failures' = failures \cup { fetch_pc }
                      /\ step' = [NoStep EXCEPT !.status = page.status]
                      /\ UNCHANGED fallback_text
                 ELSE Rendered(extract_text_content(page.doc))
    /\ UNCHANGED << base_url, fetch_intent, discovered_urls, sd_url, scan_status,
                    scan_portals, attempts >>
    /\ UNCHANGED fetch_others

\* After a portal that gave no longer text: the next one, or the end of the loop.
NextPortal ==
    IF Len(sd_portals) = 1
    THEN ReturnContent(sd_content, content_url)
    ELSE /\ sd_portals' = Tail(sd_portals)
         /\ UNCHANGED << sd_pc, sd_content, content_url, fetch_pc, path_index, page_data,
                         last_length >>

\* A variant that takes the text of a portal whatever its length.
AnyText(portal_content, current) == TRUE

\* Line 204: the text of a portal is taken when it is longer than the content so far.
Longer(portal_content, current) == TextLen(portal_content) > TextLen(current)

\* The lengths of the texts a page that is not rendered may hold.
UnseenLengths == { TextLen(extract_text_content(page.doc)) : page \in FetchPages }

\* Lines 182-210: the render of the next discovered portal. A failure is caught and the
\* next portal tried; a page with a longer text replaces the content and ends the loop,
\* whatever the portals after it hold.
RenderPortal ==
    /\ sd_pc = "portal"
    /\ \/ /\ NextPortal
          /\ step' = [step EXCEPT !.rendered = @ + 1]
          /\ failures' = failures \cup { "discovered" }
       \/ \E page \in FetchPages :
             LET portal_content == extract_text_content(page.doc)
                 seen == [step EXCEPT !.rendered = @ + 1,
                                      !.longest = IF TextLen(portal_content) > @
                                                  THEN TextLen(portal_content) ELSE @]
             IN  /\ UNCHANGED failures
                 /\ IF Longer(portal_content, sd_content)
                    THEN /\ ReturnContent(portal_content, Head(sd_portals))
                         /\ \E n \in IF Len(sd_portals) > 1 THEN UnseenLengths ELSE { -1 } :
                               step' = [seen EXCEPT !.kept = TextLen(portal_content),
                                                    !.kept_status = page.status,
                                                    !.unseen = n]
                    ELSE NextPortal /\ step' = seen
    /\ UNCHANGED << base_url, fetch_intent, discovered_urls, sd_url, fallback_text,
                    scan_status, scan_portals, attempts >>
    /\ UNCHANGED fetch_others

FetchNext ==
    \/ ScanHomepage
    \/ TryPortal
    \/ TryPath
    \/ TryBaseUrl
    \/ RenderUrl
    \/ RenderPortal

FetchStart ==
    /\ FetchInit
    /\ ResolveIdle /\ ExtractIdle /\ AdequateIdle
    /\ AggIdle /\ ChatIdle /\ QuickIdle /\ ScanIdle /\ DiscoveryIdle /\ RequestsIdle
    /\ ServerLoop

\* The Intent-Directed Scraper: one call of scrape_for_intent.
SpecFetch == FetchStart /\ [][FetchNext]_vars

\* C8: when no discovered portal and no standard path gave more than 300 characters and
\* the render of the base URL gives more than 200 characters of text, the call returns a
\* record with page_type "general" and source_url the base URL, not None.
C8_GeneralRecordFromBaseUrl ==
    (fetch_pc = "done" /\ fallback_text # <<>> /\ TextLen(fallback_text[1]) > 200)
        => /\ page_data # <<>>
           /\ page_data[1].page_type = "general"
           /\ page_data[1].source_url = base_url

\* C11: every candidate resolve returns has a non-empty URL: a registry match
\* without URL is never returned, and when the name matches only the registry
\* and every search provider yields no usable result, resolve returns the
\* empty list.
C11_EveryCandidateHasUrl ==
    Returned =>
        /\ \A i \in 1..Len(candidates) : candidates[i].url # ""
        /\ (~force_web_search /\ RegistryOnly(known_results) /\ results = <<>>) =>
                (candidates = <<>> /\ Len(calls) = 4)

\* C11 witness: a name found only in the registry was searched on the web, all
\* four providers yielded nothing, and resolve returned.
C11_Witness ==
    /\ Returned /\ ~force_web_search
    /\ RegistryOnly(known_results)
    /\ Len(calls) = 4 /\ results = <<>>
    /\ candidates = <<>>

\* The candidates of a call, in the order of lines 262-297: the matching portals of the
\* homepage scan, the URLs of the intent's standard paths, the base URL.
PathUrls ==
    [k \in 1..Len(INTENT_TO_PATHS(fetch_intent)) |->
        UrlJoin(base_url, INTENT_TO_PATHS(fetch_intent)[k])]

AllCandidates == scan_portals \o PathUrls \o << base_url >>

IsPrefix(s, t) == Len(s) <= Len(t) /\ SubSeq(t, 1, Len(s)) = s

NoAggregatorPageRendered ==
    /\ agg_rendered = "" \/ ~Renderable(agg_rendered)
    /\ agg_text = Text(0, "")

\* C13: scrape_from_aggregators returns None, without rendering any page, whenever no
\* aggregator search query yields a result on an aggregator domain.
C13_NoneWithoutAggregatorResult ==
    (agg_pc = "done" /\ ~agg_yielded) => (agg_data = <<>> /\ NoAggregatorPageRendered)

\* C13 witness: for a supported topic the three queries went through both providers, a
\* raw response listed an aggregator URL, no returned result was on an aggregator domain,
\* and the call ended.
C13_Witness ==
    /\ agg_pc = "done" /\ agg_intent \in AGGREGATOR_INTENTS
    /\ ~agg_yielded
    /\ Len(agg_calls) = 2 * Len(AGGREGATOR_DOMAINS)
    /\ agg_listed # ""
    /\ agg_data = <<>>

(***************************************************************************)
(* quick_scrape_homepage (dynamic_scraper.py): one call.                   *)
(***************************************************************************)

QuickInit ==
    /\ quick_pc = "start"
    /\ quick_base_url \in BaseUrls
    /\ quick_status = 0
    /\ quick_data = <<>>

\* Lines 321-341: the render of the base URL fails and None is returned; or the page's
\* text is extracted, whatever the status, and returned when it is longer than 100
\* characters.
QuickScrapeHomepage ==
    /\ quick_pc = "start"
    /\ \/ quick_status' = -1 /\ quick_data' = <<>>
       \/ \E page \in FetchPages :
             /\ quick_status' = page.status
             /\ quick_data' =
                  IF TextLen(extract_text_content(page.doc)) > 100
                  THEN << PageRecord("general", extract_text_content(page.doc),
                                     quick_base_url) >>
                  ELSE <<>>
    /\ quick_pc' = "done"
    /\ UNCHANGED quick_base_url
    /\ UNCHANGED quick_others

QuickNext == QuickScrapeHomepage

(***************************************************************************)
(* Calls in flight at once on the server's event loop. Every step of a     *)
(* call is a stretch of code between two awaits, and the steps of the      *)
(* calls interleave in any order.                                          *)
(***************************************************************************)

\* The calls that are in flight together.
Scenarios ==
    { { "resolve", "quick" },
      { "intent", "quick" },
      { "resolve", "aggregators" },
      { "resolve", "intent", "aggregators", "quick" } }

\* The calls of a scenario start together on the server's loop. The resolve in flight
\* with a snapshot alone is a web search; with other calls it is a registry lookup.
ConcurrentStart ==
    /\ ServerLoop
    /\ ExtractIdle /\ AdequateIdle /\ ChatIdle
    /\ \E running \in Scenarios :
          /\ IF "resolve" \in running
             THEN /\ ResolveInit
                  /\ max_results = 1
                  /\ IF running = { "resolve", "quick" }
                     THEN force_web_search /\ input_name = "Unknown Polytechnic"
                     ELSE ~force_web_search /\ input_name \in CuratedKeys
             ELSE ResolveIdle
          /\ IF "intent" \in running
             THEN /\ FetchInit
                  /\ fetch_intent = IF "resolve" \in running THEN "general" ELSE "placements"
             ELSE FetchIdle
          /\ IF "aggregators" \in running
             THEN /\ AggInit
                  /\ agg_college_name = "IIT Bombay"
                  /\ agg_intent = IF "intent" \in running THEN "about" ELSE "fees"
             ELSE AggIdle
          /\ IF "quick" \in running THEN QuickInit ELSE QuickIdle
          /\ ScanIdle /\ DiscoveryIdle /\ RequestsIdle

ConcurrentNext == ResolveNext \/ FetchNext \/ AggNext \/ QuickNext

SpecConcurrent == ConcurrentStart /\ [][ConcurrentNext]_vars

\* The last provider call of the resolve in flight.
LastCall == calls[Len(calls)]

AllDeduplicated == Deduplicate(results, << <<>>, {} >>, college_name, Len(results) + 1)

\* C15: in a web-search resolve no deduplicated result that is left out of the
\* returned list has a strictly better confidence tier than a returned one.
C15_BestRankedReturned ==
    (Returned /\ ViaWebSearch) =>
        \A i \in 1..Len(AllDeduplicated) :
            (\A j \in 1..Len(candidates) : candidates[j] # AllDeduplicated[i]) =>
                \A j \in 1..Len(candidates) :
                    confidence_order(AllDeduplicated[i].confidence)
                        >= confidence_order(candidates[j].confidence)

\* The last provider call of the aggregator fetch in flight.
LastAggregatorCall == agg_calls[Len(agg_calls)]

\* C16: for each site-restricted aggregator query DuckDuckGo Lite, the lightweight
\* text search, is queried first, and SearXNG, the meta-search, is queried for the
\* same query only when DuckDuckGo Lite returned no results.
C16_TextSearchThenMetaSearch ==
    [][agg_calls' # agg_calls =>
          IF agg_calls'[Len(agg_calls')].provider = "searxng"
          THEN /\ agg_calls # <<>>
               /\ LastAggregatorCall.provider = "duckduckgo_lite"
               /\ LastAggregatorCall.query = agg_calls'[Len(agg_calls')].query
               /\ agg_results = <<>>
          ELSE /\ agg_calls'[Len(agg_calls')].provider = "duckduckgo_lite"
               /\ \A i \in 1..Len(agg_calls) :
                     agg_calls[i].query # agg_calls'[Len(agg_calls')].query
    ]_vars

C16_Witness ==
    /\ Len(agg_calls) = 3
    /\ agg_calls[1].provider = "duckduckgo_lite"
    /\ agg_calls[2].provider = "duckduckgo_lite"
    /\ agg_calls[3].provider = "searxng"
    /\ agg_results # <<>>

\* C16 as the claim states it: for each query the meta-search provider is queried
\* first, and the lightweight text search only after it.
C16_MetaSearchFirst ==
    \A i \in 1..Len(agg_calls) :
        agg_calls[i].provider = "duckduckgo_lite" =>
            /\ i > 1
            /\ agg_calls[i - 1].provider = "searxng"
            /\ agg_calls[i - 1].query = agg_calls[i].query

\* Lines 516-536: the providers in the order the resolve calls them.
ProviderOrder == << "searxng", "startpage", "duckduckgo_lite", "playwright_google" >>

\* C17: the resolve web search queries SearXNG, Startpage, DuckDuckGo Lite and
\* Google through Playwright in this order, each at most once; a provider is
\* queried only while the results of every earlier provider were empty, the
\* first results that are not empty are kept to the end, and every returned
\* candidate has the URL of one of these results.
C17_ProviderChain ==
    /\ [](/\ Len(calls) <= Len(ProviderOrder)
          /\ \A i \in 1..Len(calls) : calls[i].provider = ProviderOrder[i])
    /\ [][/\ calls' # calls => (results = <<>> /\ Len(calls') = Len(calls) + 1)
          /\ results # <<>> => results' = results
         ]_vars
    /\ []((Returned /\ ViaWebSearch) =>
              \A j \in 1..Len(candidates) :
                  \E i \in 1..Len(results) : candidates[j].url = results[i].href)

C17_Witness ==
    /\ Returned
    /\ Len(calls) = 3
    /\ results # <<>>
    /\ candidates # <<>>

\* C18: a topic fetch attempts the matching portals of the homepage scan, then
\* the topic's standard paths in list order, then the base URL; a candidate is
\* attempted only while no earlier one gave a text above its threshold, the
\* record returned is that of the last candidate attempted (the topic and the
\* candidate's URL with more than 300 characters for a portal or a path, general
\* and the base URL with more than 200 for the base URL), and none is returned
\* only after every candidate was attempted.
C18_CandidatesInOrder ==
    /\ [](/\ IsPrefix(attempts, AllCandidates)
          /\ (fetch_pc = "done" /\ page_data # <<>>) =>
                /\ last_length = TextLen(page_data[1].content_text)
                /\ IF Len(attempts) = Len(AllCandidates)
                   THEN /\ page_data[1].page_type = "general"
                        /\ page_data[1].source_url = base_url
                        /\ last_length > 200
                   ELSE /\ page_data[1].page_type = fetch_intent
                        /\ page_data[1].source_url = attempts[Len(attempts)]
                        /\ last_length > 300
          /\ (fetch_pc = "done" /\ page_data = <<>>) =>
                (attempts = AllCandidates /\ last_length <= 200)
          /\ (fetch_pc \in { "portals", "paths" } /\ sd_pc = "idle") => last_length <= 300)
    /\ [][attempts' # attempts =>
             /\ fetch_pc # "done" /\ page_data = <<>>
             /\ last_length <= 300
             /\ Len(attempts') = Len(attempts) + 1
         ]_vars

C18_Witness ==
    /\ fetch_pc = "done"
    /\ page_data # <<>>
    /\ scan_portals # <<>>
    /\ Len(attempts) = Len(scan_portals) + 2
    /\ page_data[1].page_type = fetch_intent

\* C19: a response with a status of 400 or more is a failed fetch wherever a page
\* is rendered: the homepage scan that got one has failed, and the text of a
\* returned record is never that of such a response.
C19_ErrorStatusIsFailedFetch ==
    /\ scan_status >= 400 => "scan" \in failures
    /\ (fetch_pc = "done" /\ page_data # <<>>) => step.kept_status < 400

\* Line 182 walks the list discover_portal_urls returns, which line 146 cuts to five.
MAX_PORTALS == 5

Longest(a, b) == IF a > b THEN a ELSE b

\* A call of scrape_with_discovery whose page answered has come to its end.
StepEnded == sd_pc = "idle" /\ step.initial >= 0

\* C20: a render step whose page holds fewer than 500 characters discovers the
\* page's portals, at most five, and renders them in order up to the first whose
\* text is longer than the page's own: the content kept at the end of the step is
\* the longest of the page's text and of the texts of the portals rendered, the
\* portals after that one are not rendered, and a step whose discovery raises
\* keeps nothing; a step whose page holds 500 characters or more discovers none.
C20_LongestOfRendered ==
    /\ (sd_pc = "portal" /\ step.initial >= 0) =>
          /\ step.initial < 500 /\ step.discovery
          /\ step.longest <= step.initial
          /\ step.rendered < step.candidates
    /\ StepEnded =>
          /\ step.discovery <=> step.initial < 500
          /\ step.candidates <= MAX_PORTALS /\ step.rendered <= step.candidates
          /\ step.kept >= 0 => step.kept = Longest(step.initial, step.longest)
          /\ (step.kept = step.initial /\ step.discovery) => step.rendered = step.candidates
          /\ step.unseen >= 0 => (step.kept > step.initial /\ step.rendered < step.candidates)

C20_Witness ==
    /\ StepEnded
    /\ step.discovery
    /\ step.rendered = 2
    /\ step.kept > step.initial
    /\ step.unseen > step.kept

\* C20 as the claim states it: the content kept at the end of a step is the
\* longest of the page's text and of the texts of all the portals discovered.
C20_LongestOfDiscovered ==
    (StepEnded /\ step.discovery /\ step.kept >= 0) =>
        /\ step.kept >= step.initial
        /\ step.kept >= step.longest
        /\ step.kept >= step.unseen

\* The name search_known_colleges looks up: line 138.
NameLower == Strip(Lower(input_name))

RegistryKeys == { ALL_INSTITUTIONS[i].key : i \in 1..Len(ALL_INSTITUTIONS) }

\* Lines 167-186: a curated entry the fuzzy scan takes for the name.
CuratedFuzzyHit(n) ==
    \E i \in 1..Len(KNOWN_COLLEGES) :
        \/ IsSubstr(n, KNOWN_COLLEGES[i].key)
        \/ IsSubstr(KNOWN_COLLEGES[i].key, n)
        \/ Cardinality(QueryWords(n) \cap SeqToSet(FindWords(KNOWN_COLLEGES[i].key))) >= 2

\* C21: the Known-Entity Resolver returns the result of the first tier that
\* yields a match, in the order curated exact match, registry exact match,
\* curated fuzzy scan, registry fuzzy scan: an exact registry match is a single
\* high-confidence candidate without a URL even when curated entries fuzzy-match
\* the name, and registry entries are in a fuzzy result only when the curated
\* fuzzy scan found nothing.
C21_FirstTierWins ==
    known_consulted =>
        IF NameLower \in CuratedKeys
        THEN /\ Len(known_results) = 1
             /\ known_results[1].source = "database"
             /\ known_results[1].url # ""
        ELSE IF NameLower \in RegistryKeys
        THEN /\ Len(known_results) = 1
             /\ known_results[1].source = "ugc_database"
             /\ known_results[1].url = ""
             /\ known_results[1].confidence = "high"
        ELSE IF CuratedFuzzyHit(NameLower)
        THEN /\ known_results # <<>>
             /\ \A i \in 1..Len(known_results) : known_results[i].source = "database"
        ELSE \A i \in 1..Len(known_results) :
                 /\ known_results[i].source = "ugc_database"
                 /\ known_results[i].confidence = "medium"

C21_Witness ==
    /\ known_consulted
    /\ NameLower \in RegistryKeys
    /\ NameLower \notin CuratedKeys
    /\ CuratedFuzzyHit(NameLower)
    /\ Len(known_results) = 1
    /\ known_results[1].url = ""

(***************************************************************************)
(* services/search.py, search_known_colleges, step 4 (lines 192-235): the  *)
(* fuzzy scan of the registry, over registries the loader builds from a    *)
(* data file.  The names are of 2, 20 and 21 words longer than 3           *)
(* characters; a registry holds up to MaxContaining entries whose key      *)
(* contains the longest name, between entries that share its words.        *)
(***************************************************************************)
NameWords ==
    << "alpha", "bravo", "charlie", "delta", "echo", "foxtrot", "golf", "hotel", "india",
       "juliett", "kilo", "lima", "mike", "november", "oscar", "papa", "quebec", "romeo",
       "sierra", "tango", "uniform" >>

RECURSIVE JoinWords(_)
JoinWords(words) ==
    IF words = <<>> THEN ""
    ELSE IF Len(words) = 1 THEN words[1]
    ELSE words[1] \o " " \o JoinWords(Tail(words))

Reversed(q) == [i \in 1..Len(q) |-> q[Len(q) + 1 - i]]

WordCounts == { 2, 20, Len(NameWords) }
ScanNames == { JoinWords(Take(NameWords, n)) : n \in WordCounts }

MaxContaining == 11

Wings ==
    << "North", "South", "East", "West", "Upper", "Lower", "Central", "Inner", "Outer",
       "Old", "New", "Grand", "Royal" >>

Institution(college_title) ==
    [college |-> college_title, university |-> "State University", state |-> "Kerala",
     district |-> "Kochi", college_type |-> "Affiliated College"]

\* Entries whose key contains every name after another word.
Containing(n) == [i \in 1..n |-> Institution(Wings[i] \o " " \o JoinWords(NameWords))]

\* An entry that holds the words of the longest name in another order, one whose key
\* starts with every name, and one that shares two words with every name.
Reordered == Institution(JoinWords(Reversed(NameWords)))
Annex == Institution(JoinWords(NameWords) \o " annex")
TwoShared == Institution("bravo polytechnic alpha")

Ends == { <<>>, << Reordered >>, << Annex >>, << TwoShared >> }

Registries ==
    { LoadInstitutions(first \o Containing(n) \o last, <<>>) :
        first \in Ends, last \in Ends, n \in 0..MaxContaining }

ScanInit ==
    /\ scan_pc = "scan"
    /\ institutions \in Registries
    /\ scan_name \in ScanNames
    /\ ugc_top = <<>>

\* Lines 141-190 return before the scan when the name is a key of a catalog or a
\* curated entry fuzzy-matches it; lines 192-235 scan, sort and cut to five.
ScanRegistry ==
    /\ scan_pc = "scan"
    /\ KeyIndex(KNOWN_COLLEGES, scan_name) = 0
    /\ KeyIndex(institutions, scan_name) = 0
    /\ FuzzyKnown(scan_name, 1, <<>>) = <<>>
    /\ ugc_top' = Take(SortByScoreReverse(
                          ScanInstitutions(institutions, scan_name, 1, << <<>>, 0 >>)), 5)
    /\ scan_pc' = "done"
    /\ UNCHANGED << institutions, scan_name >>
    /\ UNCHANGED scan_others

ScanNext == ScanRegistry

ScanStart ==
    /\ ScanInit
    /\ ResolveIdle /\ ExtractIdle /\ AdequateIdle /\ AggIdle
    /\ ChatIdle /\ FetchIdle /\ QuickIdle /\ DiscoveryIdle /\ RequestsIdle
    /\ ServerLoop
SpecScan == ScanStart /\ [][ScanNext]_vars

\* The score of a key under the rule of lines 200-213, every entry scored.
RuleScore(key, name_lower) ==
    LET common == Cardinality(QueryWords(name_lower) \cap SeqToSet(FindWords(key)))
    IN  IF StartsWith(key, name_lower) THEN 90
        ELSE IF IsSubstr(name_lower, key) THEN 80
        ELSE IF common >= 2 THEN 60 + common
        ELSE 0

\* The registry entries a returned list holds, by name.
ReturnedNames == { ugc_top[i].name : i \in 1..Len(ugc_top) }

\* The scan with every entry scored: the matches in registry order.
RECURSIVE ScoreEvery(_, _, _, _)
ScoreEvery(registry, name_lower, i, ugc_matches) ==
    IF i > Len(registry) THEN ugc_matches
    ELSE ScoreEvery(registry, name_lower, i + 1,
            IF RuleScore(registry[i].key, name_lower) > 0
            THEN Append(ugc_matches,
                        Match(registry[i].name, "", "medium", "ugc_database",
                              Details(registry[i]), RuleScore(registry[i].key, name_lower)))
            ELSE ugc_matches)

\* C22: the registry fuzzy scan returns at most 5 candidates of confidence medium
\* and empty URL, in descending order of the score prefix = 90, substring = 80, at
\* least 2 shared words = 60 + their number; no entry left out has a strictly
\* higher score under that rule than a returned one; and the list is the one that
\* scoring every entry gives, the early exit after 10 scores of 80 or more
\* notwithstanding.
C22_EarlyExitKeepsList ==
    scan_pc = "done" =>
        /\ Len(ugc_top) <= 5
        /\ \A i \in 1..Len(ugc_top) :
              /\ ugc_top[i].confidence = "medium"
              /\ ugc_top[i].url = ""
              /\ ugc_top[i].score = RuleScore(Lower(ugc_top[i].name), scan_name)
        /\ \A i \in 1..(Len(ugc_top) - 1) : ugc_top[i].score >= ugc_top[i + 1].score
        /\ \A k \in 1..Len(institutions) :
              institutions[k].name \notin ReturnedNames =>
                  \A i \in 1..Len(ugc_top) :
                      RuleScore(institutions[k].key, scan_name) <= ugc_top[i].score
        /\ ugc_top = Take(SortByScoreReverse(ScoreEvery(institutions, scan_name, 1, <<>>)), 5)

\* The results of the Known-Entity Resolver that carry a URL, in their order.
KnownWithUrl == SelectSeq(known_results, LAMBDA r : r.url # "")

\* C23: when web search is not forced and the Known-Entity Resolver returns at
\* least one result that carries a URL, resolve returns those results only, in
\* their order and at most max_results of them, and queries no search provider.
C23_CuratedShortCircuit ==
    (Returned /\ ~force_web_search /\ KnownWithUrl # <<>>) =>
        /\ Len(candidates) <= max_results
        /\ Len(candidates) = IF Len(KnownWithUrl) < max_results
                             THEN Len(KnownWithUrl) ELSE max_results
        /\ \A i \in 1..Len(candidates) : candidates[i] = KnownWithUrl[i]
        /\ calls = <<>>
        /\ results = <<>>
        /\ query = ""

C23_Witness ==
    /\ Returned
    /\ ~force_web_search
    /\ Len(KnownWithUrl) = 2
    /\ max_results = 1
    /\ candidates = << KnownWithUrl[1] >>
    /\ known_results[2].confidence = "high"
    /\ calls = <<>>

\* urlparse(url).hostname as far as the results of the model go: the netloc in
\* lowercase without its port.
Hostname(url) ==
    LET netloc == Lower(UrlNetloc(url))
        colon == Find(":", netloc)
    IN  IF colon = 0 THEN netloc ELSE SubSeq(netloc, 1, colon - 1)

\* C24: no two candidates returned by the web-search path of resolve have
\* hostnames with the same last two labels.
C24_OnePerBaseDomain ==
    (Returned /\ ViaWebSearch) =>
        \A i, j \in 1..Len(candidates) :
            i # j => BaseDomain(Hostname(candidates[i].url)) # BaseDomain(Hostname(candidates[j].url))

(***************************************************************************)
(* services/dynamic_scraper.py, discover_portal_urls (lines 82-146), on    *)
(* pages of up to three iframes and MaxAnchors anchors.                    *)
(***************************************************************************)
MaxAnchors == 3

\* The anchors of a page: a keyword link and a plain link of the originating host, a
\* host under the originating domain, hosts of other domains whose name holds the
\* originating domain, a keyword link and a plain link of another site, and a link
\* urlparse rejects.
AnchorPool ==
    { Anchor("/placements", "Placements"),
      Anchor("http://[", "Map"),
      Anchor("https://www.acme.edu/about", "About us"),
      Anchor("https://ocs.acme.edu/stats", " Career Services "),
      Anchor("https://notacme.edu/", "Partner college"),
      Anchor("https://acme.edu.example.org/login", "Login"),
      Anchor("https://www.example.org/placements", "Placement news"),
      Anchor("https://www.example.org/about", "About") }

FrameLists ==
    { <<>>,
      << "https://portal.acme.edu/embed" >>,
      << "https://portal.acme.edu/embed", "/results/frame", "https://ocs.acme.edu/stats" >> }

RECURSIVE AnchorLists(_)
AnchorLists(n) ==
    IF n = 0 THEN { <<>> }
    ELSE AnchorLists(n - 1)
         \cup { Append(q, a) : q \in { r \in AnchorLists(n - 1) : Len(r) = n - 1 },
                               a \in AnchorPool }

DiscoveryPages ==
    { Page(200, Paragraph(250), frames, anchors) :
        frames \in FrameLists, anchors \in AnchorLists(MaxAnchors) }

DiscoveryInit ==
    /\ discovery_pc = "call"
    /\ discovery_page \in DiscoveryPages
    /\ discovery_base \in BaseUrls
    /\ discovery_intent \in { "placements", "general" }
    /\ portal_urls = <<>>

\* Lines 82-146: the list returned, or the ValueError of urlparse or urljoin.
DiscoverPortalUrls ==
    /\ discovery_pc = "call"
    /\ IF DiscoveryRaises(discovery_page, discovery_base)
       THEN discovery_pc' = "raised" /\ UNCHANGED portal_urls
       ELSE /\ portal_urls' = discover_portal_urls(discovery_page, discovery_base,
                                                   discovery_intent)
            /\ discovery_pc' = "done"
    /\ UNCHANGED << discovery_page, discovery_base, discovery_intent >>
    /\ UNCHANGED discovery_others

DiscoveryNext == DiscoverPortalUrls

DiscoveryStart ==
    /\ DiscoveryInit
    /\ ResolveIdle /\ ExtractIdle /\ AdequateIdle /\ AggIdle
    /\ ChatIdle /\ FetchIdle /\ QuickIdle /\ ScanIdle /\ RequestsIdle
    /\ ServerLoop
SpecDiscovery == DiscoveryStart /\ [][DiscoveryNext]_vars

\* The iframe URLs of the page in hand.
FrameUrls ==
    { item[2] : item \in SeqToSet(FrameItems(discovery_page.frames, discovery_base)) }

\* Whether an anchor of the page in hand with this URL holds a pattern of the intent in
\* its URL or its text.
KeywordLink(url) ==
    \E k \in 1..Len(discovery_page.anchors) :
        LET a == discovery_page.anchors[k]
            patterns == INTENT_URL_PATTERNS(discovery_intent)
        IN  /\ Followed(a.href)
            /\ Absolute(discovery_base, a.href) = url
            /\ \E p \in 1..Len(patterns) :
                  \/ IsSubstr(patterns[p], Lower(url))
                  \/ IsSubstr(patterns[p], Lower(Strip(a.label)))

\* A host of the registrable domain of the originating URL other than the originating
\* host: the domain itself or a name that ends in "." and the domain.
OtherHostOfDomain(url) ==
    LET host == Hostname(url)
        origin == Hostname(discovery_base)
        registrable == Remove(origin, "www.")
    IN  /\ host # origin
        /\ (host = registrable \/ EndsWith(host, "." \o registrable))

\* C25: a link that holds none of the intent's patterns in its URL or text is
\* retained by discover_portal_urls only if its host is on the registrable domain of
\* the originating URL and differs from the originating host; a host that merely
\* contains the originating domain as a substring is not taken for a subdomain.
C25_KeywordFreeLinksAreSubdomains ==
    discovery_pc = "done" =>
        \A k \in 1..Len(portal_urls) :
            (portal_urls[k] \notin FrameUrls /\ ~KeywordLink(portal_urls[k]))
                => OtherHostOfDomain(portal_urls[k])

\* Line 116: whether the retention step takes the link for a subdomain.
RetainedAsSubdomain(url) ==
    /\ IsSubstr(Domain(discovery_base), Domain(url))
    /\ Domain(url) # Domain(discovery_base)

\* The place of a returned URL in the order of the statement: embedded frames, then
\* the links retained as subdomains, then the plain keyword links.
OrderClass(url) ==
    IF url \in FrameUrls THEN 0 ELSE IF RetainedAsSubdomain(url) THEN 1 ELSE 2

\* C26: discover_portal_urls returns at most 5 URLs without duplicates, every
\* embedded-frame URL before every subdomain link and every subdomain link before
\* every plain keyword link, a link being a subdomain in the ordering exactly when
\* the retention step took it for one.
C26_FramesSubdomainsKeywords ==
    discovery_pc = "done" =>
        /\ Len(portal_urls) <= 5
        /\ \A i, j \in 1..Len(portal_urls) :
              i < j => /\ portal_urls[i] # portal_urls[j]
                       /\ OrderClass(portal_urls[i]) <= OrderClass(portal_urls[j])

\* C27: in every record scrape_for_intent returns, source_url is the URL of the page
\* whose render produced content_text; when the text of a low-content page was
\* replaced by the text of a discovered portal, the record reports the portal's URL.
C27_SourceUrlIsContentUrl ==
    (fetch_pc = "done" /\ page_data # <<>>) => page_data[1].source_url = content_url

\* The results of the provider that answered whose URL has a host, by position.
Hosted == { i \in 1..Len(results) :
              /\ results[i].href # ""
              /\ ~UrlRaises(results[i].href)
              /\ Hostname(results[i].href) # "" }

\* The two-label suffix of the host of a URL.
Suffix(url) == BaseDomain(Hostname(url))

\* C28: in the web-search path of resolve at most one candidate is returned for each
\* two-label hostname suffix, and it is the first result of the provider's response
\* under that suffix: of the hosts of two institutions under a shared public suffix
\* (x.ac.in and y.ac.in) only the first in provider order can be returned.
C28_FirstHostOfSuffixOnly ==
    (Returned /\ ViaWebSearch) =>
        \A k \in 1..Len(candidates) :
            /\ Cardinality({ j \in 1..Len(candidates) :
                               Suffix(candidates[j].url) = Suffix(candidates[k].url) }) = 1
            /\ \E i \in Hosted :
                  /\ results[i].href = candidates[k].url
                  /\ \A h \in Hosted :
                        Suffix(results[h].href) = Suffix(candidates[k].url) => i <= h

(***************************************************************************)
(* routers/college.py, confirm_college, and routers/chat.py, chat, on the  *)
(* tables of models.py.  Every request has a session of its own            *)
(* (database.py, get_db): it reads the committed rows, the row it adds is  *)
(* seen by the others after its commit only, and a session that is closed *)
(* without a commit is rolled back.  official_domain is unique: an INSERT  *)
(* of a domain that another session has inserted and not yet committed     *)
(* waits for that session, and an INSERT of a committed domain raises      *)
(* IntegrityError.  A step is the code between two awaits.                 *)
(***************************************************************************)
MaxRequests == 3

Requests == 1..MaxRequests

Confirm(url) == [kind |-> "confirm", url |-> url, college_id |-> 0, question_length |-> 0]
Chat(id, length) ==
    [kind |-> "chat", url |-> "", college_id |-> id, question_length |-> length]

RequestInputs ==
    { Confirm(url) : url \in { "https://www.acme.edu", "https://Zenith.org/home", "acme.edu" } }
    \cup { Chat(1, 2), Chat(1, 12), Chat(2, 12) }

CollegeRow(id, domain, scraped) == [id |-> id, official_domain |-> domain, scraped |-> scraped]

\* The tables when the server starts: empty, or with a College row that was stored
\* with the column default of scraped.
StoredColleges == { <<>>, << CollegeRow(1, "zenith.org", FALSE) >> }

HttpResponse(status, detail, college_id, pages_count) ==
    [status |-> status, detail |-> detail, college_id |-> college_id,
     pages_count |-> pages_count]

RequestsInit ==
    /\ colleges \in StoredColleges
    /\ college_pages = <<>>
    /\ next_id = Len(colleges) + 1
    /\ request \in [Requests -> RequestInputs]
    /\ request_pc = [r \in Requests |-> "start"]
    /\ session_college = [r \in Requests |-> <<>>]
    /\ homepage_data = [r \in Requests |-> <<>>]
    /\ http_response = [r \in Requests |-> <<>>]

\* select(College).where(College.official_domain == domain) on the committed rows.
CollegeOfDomain(domain) == SelectSeq(colleges, LAMBDA c : c.official_domain = domain)

\* select(College).where(College.id == college_id) on the committed rows.
CollegeOfId(id) == SelectSeq(colleges, LAMBDA c : c.id = id)

PagesOf(id) == SelectSeq(college_pages, LAMBDA p : p.college_id = id)

Respond(r, response) ==
    /\ http_response' = [http_response EXCEPT ![r] = << response >>]
    /\ request_pc' = [request_pc EXCEPT ![r] = "done"]

\* college.py lines 65-95: the URL is parsed, the College of the domain is looked up
\* and, when it is scraped, the answer is "already_exists".
ConfirmCheck(r) ==
    /\ request[r].kind = "confirm"
    /\ request_pc[r] = "start"
    /\ LET url == request[r].url
           domain == Lower(UrlNetloc(url))
           existing == CollegeOfDomain(domain)
       IN  IF UrlRaises(url) \/ domain = ""
           THEN Respond(r, HttpResponse(400, "Invalid URL provided", 0, 0))
                /\ UNCHANGED session_college
           ELSE IF existing # <<>> /\ existing[1].scraped
           THEN Respond(r, HttpResponse(200, "already_exists", existing[1].id,
                                        Len(PagesOf(existing[1].id))))
                /\ UNCHANGED session_college
           ELSE /\ request_pc' = [request_pc EXCEPT ![r] =
                                     IF existing # <<>> THEN "scrape" ELSE "insert"]
                /\ session_college' = [session_college EXCEPT ![r] = existing]
                /\ UNCHANGED http_response
    /\ UNCHANGED << colleges, college_pages, next_id, request, homepage_data >>
    /\ UNCHANGED request_others

\* The sessions that hold a row of the domain they inserted and have not committed.
Inserting(domain) ==
    { q \in Requests :
        /\ request_pc[q] \in { "scrape", "commit" }
        /\ session_college[q] # <<>>
        /\ session_college[q][1].official_domain = domain
        /\ \A i \in 1..Len(colleges) : colleges[i].id # session_college[q][1].id }

\* Lines 97-104: db.add(college) and the flush, which sends the INSERT. The unique
\* index makes it wait for a session that inserted the domain; IntegrityError is not
\* caught and the request ends with status 500.
ConfirmInsert(r) ==
    /\ request[r].kind = "confirm"
    /\ request_pc[r] = "insert"
    /\ LET domain == Lower(UrlNetloc(request[r].url))
       IN  /\ Inserting(domain) = {}
           /\ IF \E i \in 1..Len(colleges) : colleges[i].official_domain = domain
              THEN /\ Respond(r, HttpResponse(500, "Internal Server Error", 0, 0))
                   /\ UNCHANGED << session_college, next_id >>
              ELSE /\ session_college' =
                         [session_college EXCEPT ![r] = << CollegeRow(next_id, domain, FALSE) >>]
                   /\ next_id' = next_id + 1
                   /\ request_pc' = [request_pc EXCEPT ![r] = "scrape"]
                   /\ UNCHANGED http_response
    /\ UNCHANGED << colleges, college_pages, request, homepage_data >>
    /\ UNCHANGED request_others

\* Lines 107-114: quick_scrape_homepage gives a record or None, or raises; the
\* exception ends the request with status 500 and the session is rolled back.
ConfirmScrape(r) ==
    /\ request[r].kind = "confirm"
    /\ request_pc[r] = "scrape"
    /\ \/ /\ Respond(r, HttpResponse(500, "Failed to access website", 0, 0))
          /\ session_college' = [session_college EXCEPT ![r] = <<>>]
          /\ UNCHANGED homepage_data
       \/ \E data \in { <<>>, << PageRecord("general", Text(150, ""), request[r].url) >> } :
             /\ homepage_data' = [homepage_data EXCEPT ![r] = data]
             /\ request_pc' = [request_pc EXCEPT ![r] = "commit"]
             /\ UNCHANGED << session_college, http_response >>
    /\ UNCHANGED << colleges, college_pages, next_id, request >>
    /\ UNCHANGED request_others

\* The table after the commit of a session's College row: a new row is appended, a
\* row read from the table is updated.
Committed(row) ==
    IF \E i \in 1..Len(colleges) : colleges[i].id = row.id
    THEN [i \in 1..Len(colleges) |-> IF colleges[i].id = row.id THEN row ELSE colleges[i]]
    ELSE Append(colleges, row)

\* A variant that leaves the flag as it is.
ScrapedUnchanged(row) == row

\* Lines 118 and 138: college.scraped = True.
MarkScraped(row) == [row EXCEPT !.scraped = TRUE]

\* Lines 116-147: the page of the snapshot is added when there is one, scraped is set
\* and the session is committed.
ConfirmCommit(r) ==
    /\ request[r].kind = "confirm"
    /\ request_pc[r] = "commit"
    /\ LET updated == MarkScraped(session_college[r][1])
       IN  /\ colleges' = Committed(updated)
           /\ college_pages' =
                 IF homepage_data[r] = <<>> THEN college_pages
                 ELSE Append(college_pages,
                             [college_id |-> updated.id, page_type |-> homepage_data[r][1].page_type])
           /\ session_college' = [session_college EXCEPT ![r] = << updated >>]
           /\ Respond(r, HttpResponse(200, "ready", updated.id,
                                      IF homepage_data[r] = <<>> THEN 0 ELSE 1))
    /\ UNCHANGED << next_id, request, homepage_data >>
    /\ UNCHANGED request_others

\* chat.py lines 49-65: the checks of the request.
ChatCheck(r) ==
    /\ request[r].kind = "chat"
    /\ request_pc[r] = "start"
    /\ LET found == CollegeOfId(request[r].college_id)
       IN  IF request[r].question_length < 3
           THEN Respond(r, HttpResponse(400, "Question must be at least 3 characters", 0, 0))
                /\ UNCHANGED session_college
           ELSE IF found = <<>>
           THEN Respond(r, HttpResponse(404, "College not found", 0, 0))
                /\ UNCHANGED session_college
           ELSE IF ~found[1].scraped
           THEN Respond(r, HttpResponse(400, "College data has not been scraped yet",
                                        found[1].id, 0))
                /\ UNCHANGED session_college
           ELSE /\ request_pc' = [request_pc EXCEPT ![r] = "answer"]
                /\ session_college' = [session_college EXCEPT ![r] = found]
                /\ UNCHANGED http_response
    /\ UNCHANGED << colleges, college_pages, next_id, request, homepage_data >>
    /\ UNCHANGED request_others

\* Lines 67-193: the question is answered, from the model's knowledge or from pages;
\* a page that was scraped for it is added and committed (lines 125-133, 144-151).
ChatAnswer(r) ==
    /\ request[r].kind = "chat"
    /\ request_pc[r] = "answer"
    /\ \/ UNCHANGED college_pages
       \/ college_pages' = Append(college_pages,
                                  [college_id |-> session_college[r][1].id,
                                   page_type |-> "fees"])
    /\ Respond(r, HttpResponse(200, "answer", session_college[r][1].id,
                               Len(PagesOf(session_college[r][1].id))))
    /\ UNCHANGED << colleges, next_id, request, session_college, homepage_data >>
    /\ UNCHANGED request_others

RequestsNext ==
    \E r \in Requests :
        \/ ConfirmCheck(r)
        \/ ConfirmInsert(r)
        \/ ConfirmScrape(r)
        \/ ConfirmCommit(r)
        \/ ChatCheck(r)
        \/ ChatAnswer(r)

RequestsStart ==
    /\ RequestsInit
    /\ ResolveIdle /\ ExtractIdle /\ AdequateIdle /\ AggIdle
    /\ ChatIdle /\ FetchIdle /\ QuickIdle /\ ScanIdle /\ DiscoveryIdle
    /\ ServerLoop
SpecRequests == RequestsStart /\ [][RequestsNext]_vars

\* The committed College rows of a domain.
RowsOf(domain) == SelectSeq(colleges, LAMBDA c : c.official_domain = domain)

ConfirmEnded(r) == request[r].kind = "confirm" /\ request_pc[r] = "done"

\* C29: whatever the interleaving of confirm requests for a domain that is not
\* stored, at most one College row of the domain exists afterwards, every request
\* that went on to the insert or found the row ends with a response that carries the
\* id of that row, and no request fails because another one inserted the domain
\* between its lookup and its insert.
C29_ConcurrentConfirmsSucceed ==
    \A r \in Requests :
        ConfirmEnded(r) =>
            LET domain == Lower(UrlNetloc(request[r].url))
                response == http_response[r][1]
            IN  /\ Len(RowsOf(domain)) <= 1
                /\ response.detail # "Internal Server Error"
                /\ response.status = 200 =>
                      /\ RowsOf(domain) # <<>>
                      /\ response.college_id = RowsOf(domain)[1].id

ChatEnded(r) == request[r].kind = "chat" /\ request_pc[r] = "done"

\* The stored College row a chat request names, when there is one.
Named(r) == SelectSeq(colleges, LAMBDA c : c.id = request[r].college_id)

\* A confirm request that has ended with the id of the college in its response.
ConfirmedBy(id) ==
    { q \in Requests : /\ ConfirmEnded(q)
                       /\ http_response[q][1].status = 200
                       /\ http_response[q][1].college_id = id }

=====
